---- MODULE Spec2Model ----
(***************************************************************************)
(* The generate / guardrail / validate / retry loop of the MCP builder:    *)
(*   src/llm/code_generator.py  CodeGenerator.generate_mcp_server          *)
(*   src/llm/guardrails.py      GuardrailsEngine                           *)
(*   src/llm/validator.py       CodeValidator                              *)
(*                                                                         *)
(* A source text is a sequence of lines.  The lines are drawn from a       *)
(* finite vocabulary; what Python's `in`, re.search, re.sub and ast.walk   *)
(* compute on a line is tabulated per line (Substrings, re_search,         *)
(* re_search_IGNORECASE, re_sub, AstNodes), and every check of the code is *)
(* computed from those tables the way the code computes it from the text.  *)
(* No needle or pattern of the code contains a line break, so a search of  *)
(* the whole text is a search of its lines.                                *)
(*                                                                         *)
(* Spec is one call of generate_mcp_server.  EngineSpec is a client of one *)
(* GuardrailsEngine that calls check_violations and validate_and_sanitize  *)
(* on any text, in any order.                                              *)
(*                                                                         *)
(* Around the loop stand the request handler, the build pipeline and the   *)
(* deployer:                                                               *)
(*   src/builder/server.py     call_tool, MCPHandler.do_POST               *)
(*   src/builder/pipeline.py   MCPBuilderPipeline                          *)
(*   src/host/deployer.py      Deployer                                    *)
(* BuildSpec is one build_mcp_server request with the pipeline task it     *)
(* starts, BuildLiveSpec is BuildSpec with the event loop's scheduling,    *)
(* DeploySpec is a client of one Deployer that deploys the versions of one *)
(* user and platform one after the other, and CancelSpec is one call of    *)
(* generate_mcp_server whose task may be cancelled.  A path is the         *)
(* sequence of its components.                                             *)
(***************************************************************************)
EXTENDS Integers, Sequences, FiniteSets, TLC

VARIABLES
    pc,              \* position in generate_mcp_server
    attempt,         \* the loop variable of `for attempt in range(max_attempts)`
    prompt,          \* the local `prompt`: the request prompt and the feedback appended to it
    generated_code,  \* the local `generated_code`
    validated_code,  \* the local `validated_code`
    test_results,    \* the local `test_results`
    result,          \* what the call gave its caller: a returned dict or a raised exception
    llm_calls,       \* history variable: the number of _call_llm invocations made
    history,         \* history variable: one record per loop iteration entered
    engine,          \* the attributes of the GuardrailsEngine object
    calls,           \* history variable: the calls made on the engine by a client of it
    cancel,          \* the cancellation of the task that runs generate_mcp_server
    server,          \* the server process: user_db, the request being served, its response
    loop,            \* the event loop the request is served on
    fs,              \* the file system: its directories and the contents of its files
    pipeline,        \* the execute_build_pipeline task: its position, arguments and locals
    deployment       \* the deploy_mcp_server call: its position, arguments and locals

vars == <<pc, attempt, prompt, generated_code, validated_code, test_results,
          result, llm_calls, history, engine, calls, cancel, server, loop, fs,
          pipeline, deployment>>

build_vars == <<server, loop, fs, pipeline, deployment>>

None == "None"

-----------------------------------------------------------------------------
(* Source texts.                                                           *)

\* _get_valid_test_code() of the integration tests: its lines that some check
\* of guardrails.py or validator.py reads, in order, without indentation.
ValidTestCode ==
    << "import os",
       "from mcp import types",
       "from mcp.server import Server",
       "from mcp.server.stdio import stdio_server",
       "CLIENT_ID = os.getenv(\"OAUTH_CLIENT_ID\")",
       "CLIENT_SECRET = os.getenv(\"OAUTH_CLIENT_SECRET\") ",
       "REDIRECT_URI = os.getenv(\"OAUTH_REDIRECT_URI\")",
       "server = Server(\"test-mcp\")",
       "self.access_token = None",
       "def get_auth_url(self):",
       "@server.list_tools()",
       "async def list_tools() -> List[types.Tool]:",
       "types.Tool(",
       "name=\"authenticate\",",
       "inputSchema={",
       "\"type\": \"object\",",
       "@server.call_tool()",
       "async def call_tool(name: str, arguments: Dict[str, Any]) -> List[types.TextContent]:",
       "try:",
       "return [types.TextContent(type=\"text\", text=\"Unknown tool\")]",
       "except Exception as e:",
       "async def main():",
       "async with stdio_server() as streams:" >>

\* The first reply of the mocked backend in test_pipeline_with_iterations.
InvalidSyntaxCode == << "invalid python code {{{" >>

\* The `invalid_code` sample of test_guardrails_integration.
InvalidTestCode ==
    << "import subprocess",
       "CLIENT_SECRET = \"hardcoded_secret_123\"",
       "eval(\"malicious_code\")" >>

Without(code, lines) == SelectSeq(code, LAMBDA l : l \notin lines)

\* The valid test code with a comment that spells the entrypoint the way the
\* guardrails' required pattern wants it.
CompliantCode == ValidTestCode \o << "# async def call_tool()" >>

MissingStdioImportCode ==
    Without(CompliantCode, {"from mcp.server.stdio import stdio_server"})

MissingListToolsCode ==
    Without(CompliantCode, {"async def list_tools() -> List[types.Tool]:"})

\* The entrypoint function without the decorator that registers it.
MissingListToolsDecoratorCode == Without(CompliantCode, {"@server.list_tools()"})

NoErrorHandlingCode == Without(CompliantCode, {"try:", "except Exception as e:"})

ForbiddenImportCode == CompliantCode \o << "import subprocess" >>

\* os.system, a name of forbidden_imports, imported from its module.
FromOsImportSystemCode == CompliantCode \o << "from os import system" >>

HardcodedSecretCode ==
    CompliantCode \o << "CLIENT_SECRET = \"sk_abcdef0123456789abcdef\"" >>

HardcodedClientIdCode ==
    CompliantCode \o << "CLIENT_ID = \"sk_abcdef0123456789abcdef\"" >>

ApostropheClientIdCode ==
    CompliantCode \o << "X = \"AAAAAAAAAAAAAAAAAAAAAAAA\"", "CLIENT_ID = \"it's an id\"" >>

NoEnvironmentCode ==
    Without(CompliantCode,
            {"import os",
             "CLIENT_ID = os.getenv(\"OAUTH_CLIENT_ID\")",
             "CLIENT_SECRET = os.getenv(\"OAUTH_CLIENT_SECRET\") ",
             "REDIRECT_URI = os.getenv(\"OAUTH_REDIRECT_URI\")"})
        \o << "CLIENT_SECRET = load_secret()" >>

\* The replies the generative backend may give to one call.
Candidates ==
    { ValidTestCode, InvalidSyntaxCode, InvalidTestCode, CompliantCode,
      MissingStdioImportCode, MissingListToolsCode, NoErrorHandlingCode,
      ForbiddenImportCode, HardcodedSecretCode, HardcodedClientIdCode,
      ApostropheClientIdCode, NoEnvironmentCode,
      MissingListToolsDecoratorCode, FromOsImportSystemCode }

\* from subprocess import Popen, in an artifact that is compliant otherwise.
ForbiddenImportFromCode == CompliantCode \o << "from subprocess import Popen" >>

\* The texts a client of the guardrails engine passes to it.
Sources ==
    { CompliantCode, InvalidTestCode, ForbiddenImportCode, ForbiddenImportFromCode,
      FromOsImportSystemCode, HardcodedSecretCode, HardcodedClientIdCode }

-----------------------------------------------------------------------------
(* What Python computes on one line of the vocabulary.                     *)

\* `needle in line`, for the needles the code searches for.
Substrings(line) ==
    CASE line = "import os" ->
           {"import os"}
      [] line = "from mcp import types" ->
           {"from mcp import types"}
      [] line = "from mcp.server import Server" ->
           {"from mcp.server import Server"}
      [] line = "from mcp.server.stdio import stdio_server" ->
           {"from mcp.server.stdio import stdio_server"}
      [] line = "CLIENT_ID = os.getenv(\"OAUTH_CLIENT_ID\")" ->
           {"CLIENT_ID", "os.getenv"}
      [] line = "CLIENT_SECRET = os.getenv(\"OAUTH_CLIENT_SECRET\") " ->
           {"CLIENT_SECRET", "os.getenv"}
      [] line = "REDIRECT_URI = os.getenv(\"OAUTH_REDIRECT_URI\")" ->
           {"REDIRECT_URI", "os.getenv"}
      [] line = "server = Server(\"test-mcp\")" ->
           {"server = Server("}
      [] line = "self.access_token = None" ->
           {"access_token"}
      [] line = "def get_auth_url(self):" ->
           {"get_auth_url"}
      [] line = "@server.list_tools()" ->
           {"@server.list_tools()"}
      [] line = "async def list_tools() -> List[types.Tool]:" ->
           {"async def list_tools(", "async def"}
      [] line = "types.Tool(" ->
           {"types.Tool("}
      [] line = "name=\"authenticate\"," ->
           {"\"authenticate\""}
      [] line = "inputSchema={" ->
           {"inputSchema"}
      [] line = "\"type\": \"object\"," ->
           {"\"type\": \"object\""}
      [] line = "@server.call_tool()" ->
           {"@server.call_tool()"}
      [] line = "async def call_tool(name: str, arguments: Dict[str, Any]) -> List[types.TextContent]:" ->
           {"async def call_tool(", "async def"}
      [] line = "try:" ->
           {"try:"}
      [] line = "return [types.TextContent(type=\"text\", text=\"Unknown tool\")]" ->
           {"types.TextContent("}
      [] line = "except Exception as e:" ->
           {"except"}
      [] line = "async def main():" ->
           {"async def main(", "async def"}
      [] line = "async with stdio_server() as streams:" ->
           {"stdio_server()"}
      [] line = "# async def call_tool()" ->
           {"async def call_tool(", "async def"}
      [] line = "import subprocess" ->
           {"import subprocess"}
      [] line = "from os import system" ->
           {"from os import"}
      [] line = "CLIENT_ID = \"it's an id\"" ->
           {"CLIENT_ID"}
      [] line = "CLIENT_ID = \"sk_abcdef0123456789abcdef\"" ->
           {"CLIENT_ID"}
      [] line = "CLIENT_SECRET = \"sk_abcdef0123456789abcdef\"" ->
           {"CLIENT_SECRET"}
      [] line = "CLIENT_SECRET = \"hardcoded_secret_123\"" ->
           {"CLIENT_SECRET"}
      [] line = "CLIENT_SECRET = load_secret()" ->
           {"CLIENT_SECRET"}
      [] line = "CLIENT_ID = os.getenv(\"OAUTH_CLIENT_ID\")s an id\"" ->
           {"CLIENT_ID", "os.getenv"}
      [] line = "CLIENT_SECRET = os.getenv(\"OAUTH_CLIENT_SECRET\")" ->
           {"CLIENT_SECRET", "os.getenv"}
      [] OTHER -> {}


\* re.search(pattern, line), for the required_patterns.
re_search(pattern, line) ==
    CASE line = "from mcp import types" ->
           pattern \in {"from mcp import types"}
      [] line = "from mcp.server import Server" ->
           pattern \in {"from mcp\\.server import Server"}
      [] line = "async def list_tools() -> List[types.Tool]:" ->
           pattern \in {"async def list_tools\\(\\)"}
      [] line = "# async def call_tool()" ->
           pattern \in {"async def call_tool\\(\\)"}
      [] OTHER -> FALSE

\* re.search(pattern, line, re.IGNORECASE), for the security_patterns.
re_search_IGNORECASE(pattern, line) ==
    CASE line = "CLIENT_SECRET = \"sk_abcdef0123456789abcdef\"" ->
           pattern \in {"CLIENT_SECRET\\s*=\\s*[\"\\'][^\"\\']+[\"\\']"}
      [] line = "CLIENT_SECRET = \"hardcoded_secret_123\"" ->
           pattern \in {"CLIENT_SECRET\\s*=\\s*[\"\\'][^\"\\']+[\"\\']"}
      [] OTHER -> FALSE

\* re.sub(pattern, repl, line), for the replacements of _fix_hardcoded_secrets.
re_sub(pattern, repl, line) ==
    CASE pattern = "CLIENT_ID\\s*=\\s*[\"\\'][^\"\\']+[\"\\']" /\ line = "CLIENT_ID = \"it's an id\"" ->
           "CLIENT_ID = os.getenv(\"OAUTH_CLIENT_ID\")s an id\""
      [] pattern = "CLIENT_ID\\s*=\\s*[\"\\'][^\"\\']+[\"\\']" /\ line = "CLIENT_ID = \"sk_abcdef0123456789abcdef\"" ->
           "CLIENT_ID = os.getenv(\"OAUTH_CLIENT_ID\")"
      [] pattern = "CLIENT_SECRET\\s*=\\s*[\"\\'][^\"\\']+[\"\\']" /\ line = "CLIENT_SECRET = \"sk_abcdef0123456789abcdef\"" ->
           "CLIENT_SECRET = os.getenv(\"OAUTH_CLIENT_SECRET\")"
      [] pattern = "CLIENT_SECRET\\s*=\\s*[\"\\'][^\"\\']+[\"\\']" /\ line = "CLIENT_SECRET = \"hardcoded_secret_123\"" ->
           "CLIENT_SECRET = os.getenv(\"OAUTH_CLIENT_SECRET\")"
      [] OTHER -> line

\* The nodes of the line's tree that _check_ast_violations looks at (imports,
\* calls, string constants), in ast.walk order, with their depth below the module.
AstNodes(line) ==
    CASE line = "import os" ->
           <<[kind |-> "Import", name |-> "os", depth |-> 1]>>
      [] line = "from mcp import types" ->
           <<[kind |-> "ImportFrom", name |-> "mcp", depth |-> 1]>>
      [] line = "from mcp.server import Server" ->
           <<[kind |-> "ImportFrom", name |-> "mcp.server", depth |-> 1]>>
      [] line = "from mcp.server.stdio import stdio_server" ->
           <<[kind |-> "ImportFrom", name |-> "mcp.server.stdio", depth |-> 1]>>
      [] line = "CLIENT_ID = os.getenv(\"OAUTH_CLIENT_ID\")" ->
           <<[kind |-> "CallAttribute", name |-> "getenv", depth |-> 2], [kind |-> "Str", name |-> "OAUTH_CLIENT_ID", depth |-> 3]>>
      [] line = "CLIENT_SECRET = os.getenv(\"OAUTH_CLIENT_SECRET\") " ->
           <<[kind |-> "CallAttribute", name |-> "getenv", depth |-> 2], [kind |-> "Str", name |-> "OAUTH_CLIENT_SECRET", depth |-> 3]>>
      [] line = "REDIRECT_URI = os.getenv(\"OAUTH_REDIRECT_URI\")" ->
           <<[kind |-> "CallAttribute", name |-> "getenv", depth |-> 2], [kind |-> "Str", name |-> "OAUTH_REDIRECT_URI", depth |-> 3]>>
      [] line = "server = Server(\"test-mcp\")" ->
           <<[kind |-> "CallName", name |-> "Server", depth |-> 2], [kind |-> "Str", name |-> "test-mcp", depth |-> 3]>>
      [] line = "@server.list_tools()" ->
           <<[kind |-> "CallAttribute", name |-> "list_tools", depth |-> 2]>>
      [] line = "types.Tool(" ->
           <<[kind |-> "CallAttribute", name |-> "Tool", depth |-> 2]>>
      [] line = "name=\"authenticate\"," ->
           <<[kind |-> "Str", name |-> "authenticate", depth |-> 3]>>
      [] line = "\"type\": \"object\"," ->
           <<[kind |-> "Str", name |-> "type", depth |-> 2], [kind |-> "Str", name |-> "object", depth |-> 2]>>
      [] line = "@server.call_tool()" ->
           <<[kind |-> "CallAttribute", name |-> "call_tool", depth |-> 2]>>
      [] line = "return [types.TextContent(type=\"text\", text=\"Unknown tool\")]" ->
           <<[kind |-> "CallAttribute", name |-> "TextContent", depth |-> 3], [kind |-> "Str", name |-> "text", depth |-> 5], [kind |-> "Str", name |-> "Unknown tool", depth |-> 5]>>
      [] line = "async with stdio_server() as streams:" ->
           <<[kind |-> "CallName", name |-> "stdio_server", depth |-> 3]>>
      [] line = "import subprocess" ->
           <<[kind |-> "Import", name |-> "subprocess", depth |-> 1]>>
      [] line = "from os import system" ->
           <<[kind |-> "ImportFrom", name |-> "os", depth |-> 1]>>
      [] line = "from subprocess import Popen" ->
           <<[kind |-> "ImportFrom", name |-> "subprocess", depth |-> 1]>>
      [] line = "eval(\"malicious_code\")" ->
           <<[kind |-> "CallName", name |-> "eval", depth |-> 2], [kind |-> "Str", name |-> "malicious_code", depth |-> 3]>>
      [] line = "X = \"AAAAAAAAAAAAAAAAAAAAAAAA\"" ->
           <<[kind |-> "Str", name |-> "AAAAAAAAAAAAAAAAAAAAAAAA", depth |-> 2]>>
      [] line = "CLIENT_ID = \"it's an id\"" ->
           <<[kind |-> "Str", name |-> "it's an id", depth |-> 2]>>
      [] line = "CLIENT_ID = \"sk_abcdef0123456789abcdef\"" ->
           <<[kind |-> "Str", name |-> "sk_abcdef0123456789abcdef", depth |-> 2]>>
      [] line = "CLIENT_SECRET = \"sk_abcdef0123456789abcdef\"" ->
           <<[kind |-> "Str", name |-> "sk_abcdef0123456789abcdef", depth |-> 2]>>
      [] line = "CLIENT_SECRET = \"hardcoded_secret_123\"" ->
           <<[kind |-> "Str", name |-> "hardcoded_secret_123", depth |-> 2]>>
      [] line = "CLIENT_SECRET = load_secret()" ->
           <<[kind |-> "CallName", name |-> "load_secret", depth |-> 2]>>
      [] line = "CLIENT_SECRET = os.getenv(\"OAUTH_CLIENT_SECRET\")" ->
           <<[kind |-> "CallAttribute", name |-> "getenv", depth |-> 2], [kind |-> "Str", name |-> "OAUTH_CLIENT_SECRET", depth |-> 3]>>
      [] OTHER -> <<>>

\* ast.parse(line) raises SyntaxError.
Unparseable(line) ==
    line \in { "invalid python code {{{",
               "CLIENT_ID = os.getenv(\"OAUTH_CLIENT_ID\")s an id\"" }

\* SyntaxError.msg of an unparseable line that stands at line `lineno`.
SyntaxErrorMsg(line, lineno) ==
    CASE line = "invalid python code {{{" -> "'{' was never closed"
      [] line = "CLIENT_ID = os.getenv(\"OAUTH_CLIENT_ID\")s an id\"" ->
           "unterminated string literal (detected at line " \o ToString(lineno) \o ")"
      [] OTHER -> "invalid syntax"

\* re.match(pattern, text) for the secret_indicators of _looks_like_secret.
re_match(pattern, text) ==
    CASE text = "AAAAAAAAAAAAAAAAAAAAAAAA" ->
           pattern \in {"^[A-Za-z0-9+/]{20,}={0,2}$", "^[A-Z0-9]{20,}$"}
      [] text = "sk_abcdef0123456789abcdef" ->
           pattern \in {"^sk_[a-z0-9]{20,}$"}
      [] OTHER -> FALSE

-----------------------------------------------------------------------------
(* Helpers on texts and lists.                                             *)

\* The concatenation lists[1] \o ... \o lists[n] of the lists a loop appends.
ConcatOver(lists) ==
    LET f[i \in 0..Len(lists)] == IF i = 0 THEN <<>> ELSE f[i - 1] \o lists[i]
    IN  f[Len(lists)]

\* `needle in code`
Contains(code, needle) == \E i \in DOMAIN code : needle \in Substrings(code[i])

\* ast.parse(code): the first line that does not parse decides the error.
ast_parse(code) ==
    IF \E i \in DOMAIN code : Unparseable(code[i])
    THEN LET i == CHOOSE k \in DOMAIN code :
                      /\ Unparseable(code[k])
                      /\ \A j \in 1..(k - 1) : ~Unparseable(code[j])
         IN  [ok |-> FALSE, lineno |-> i, msg |-> SyntaxErrorMsg(code[i], i)]
    ELSE [ok |-> TRUE, lineno |-> 0, msg |-> ""]

\* str(e) of a SyntaxError raised by ast.parse
SyntaxErrorStr(e) == e.msg \o " (<unknown>, line " \o ToString(e.lineno) \o ")"

-----------------------------------------------------------------------------
(* GuardrailsEngine (src/llm/guardrails.py).                               *)

GuardrailViolation(rule, severity, message, line_number, suggestion) ==
    [rule |-> rule, severity |-> severity, message |-> message,
     line_number |-> line_number, suggestion |-> suggestion]

forbidden_imports ==
    { "subprocess", "os.system", "eval", "exec", "compile",
      "__import__", "open", "file", "input", "raw_input" }

forbidden_functions ==
    { "eval", "exec", "compile", "globals", "locals",
      "setattr", "delattr", "hasattr", "__import__" }

required_patterns ==
    << "from mcp import types",
       "from mcp\\.server import Server",
       "async def list_tools\\(\\)",
       "async def call_tool\\(\\)" >>

security_patterns ==
    << <<"CLIENT_SECRET\\s*=\\s*[\"\\'][^\"\\']+[\"\\']", "Hardcoded secret detected">>,
       <<"password\\s*=\\s*[\"\\'][^\"\\']+[\"\\']", "Hardcoded password detected">>,
       <<"api_key\\s*=\\s*[\"\\'][^\"\\']+[\"\\']", "Hardcoded API key detected">>,
       <<"token\\s*=\\s*[\"\\'][^\"\\']+[\"\\']", "Hardcoded token detected">> >>

secret_indicators ==
    << "^[A-Za-z0-9+/]{20,}={0,2}$",
       "^[a-f0-9]{32,}$",
       "^sk_[a-z0-9]{20,}$",
       "^[A-Z0-9]{20,}$" >>

_looks_like_secret(text) ==
    IF Len(text) < 10
    THEN FALSE
    ELSE \E k \in DOMAIN secret_indicators : re_match(secret_indicators[k], text)

\* The violations one node of the tree gives in the loop of _check_ast_violations.
NodeViolations(node, lineno) ==
    CASE node.kind = "Import" ->
           IF node.name \in forbidden_imports
           THEN << GuardrailViolation("forbidden_import", "error",
                       "Forbidden import: " \o node.name, lineno,
                       "Remove import " \o node.name \o " or use safer alternative") >>
           ELSE <<>>
      [] node.kind = "ImportFrom" ->
           IF node.name \in forbidden_imports
           THEN << GuardrailViolation("forbidden_import", "error",
                       "Forbidden import from: " \o node.name, lineno, None) >>
           ELSE <<>>
      [] node.kind = "CallName" ->
           IF node.name \in forbidden_functions
           THEN << GuardrailViolation("forbidden_function", "error",
                       "Forbidden function call: " \o node.name, lineno, None) >>
           ELSE <<>>
      [] node.kind = "CallAttribute" ->
           IF node.name \in forbidden_functions
           THEN << GuardrailViolation("forbidden_function", "warning",
                       "Potentially unsafe function call: " \o node.name, lineno, None) >>
           ELSE <<>>
      [] node.kind = "Str" ->
           IF _looks_like_secret(node.name)
           THEN << GuardrailViolation("hardcoded_secret", "warning",
                       "Potential hardcoded secret in string literal", lineno,
                       "Use environment variables or config files") >>
           ELSE <<>>
      [] OTHER -> <<>>

\* The depths at which ast.walk, breadth first, meets the nodes of AstNodes.
AstDepths == 1..5

\* ast.walk is breadth first: the nodes of one depth in line order, depth by depth.
_check_ast_violations(code) ==
    ConcatOver([d \in 1..Cardinality(AstDepths) |->
        ConcatOver([i \in 1..Len(code) |->
            ConcatOver([k \in 1..Len(AstNodes(code[i])) |->
                IF AstNodes(code[i])[k].depth = d
                THEN NodeViolations(AstNodes(code[i])[k], i)
                ELSE <<>>])])])

_check_security_patterns(code) ==
    ConcatOver([i \in 1..Len(code) |->
        ConcatOver([k \in 1..Len(security_patterns) |->
            IF re_search_IGNORECASE(security_patterns[k][1], code[i])
            THEN << GuardrailViolation("security_pattern", "error",
                        security_patterns[k][2], i,
                        "Use environment variables instead") >>
            ELSE <<>>])])

_check_required_patterns(code) ==
    ConcatOver([k \in 1..Len(required_patterns) |->
        IF ~(\E i \in DOMAIN code : re_search(required_patterns[k], code[i]))
        THEN << GuardrailViolation("missing_required_pattern", "error",
                    "Missing required MCP pattern: " \o required_patterns[k], 0,
                    "Ensure all required MCP server components are implemented") >>
        ELSE <<>>])

_check_code_quality(code) ==
    ConcatOver([i \in 1..Len(code) |->
        IF Len(code[i]) > 120
        THEN << GuardrailViolation("line_length", "warning",
                    "Line exceeds 120 characters", i,
                    "Break long lines for better readability") >>
        ELSE <<>>])
    \o (IF Contains(code, "async def") /\ ~Contains(code, "try:")
        THEN << GuardrailViolation("error_handling", "warning",
                    "Async functions should include error handling", 0,
                    "Add try/except blocks for robust error handling") >>
        ELSE <<>>)
    \o (IF Contains(code, "CLIENT_SECRET") /\ ~Contains(code, "os.getenv")
        THEN << GuardrailViolation("credential_handling", "warning",
                    "OAuth credentials should be loaded from environment", 0,
                    "Use os.getenv() to load sensitive credentials") >>
        ELSE <<>>)

check_violations(code) ==
    LET tree == ast_parse(code)
    IN  IF ~tree.ok
        THEN << GuardrailViolation("syntax", "error",
                    "Syntax error: " \o SyntaxErrorStr(tree), tree.lineno, None) >>
        ELSE _check_ast_violations(code)
             \o _check_security_patterns(code)
             \o _check_required_patterns(code)
             \o _check_code_quality(code)

replacements ==
    << <<"CLIENT_SECRET\\s*=\\s*[\"\\'][^\"\\']+[\"\\']",
         "CLIENT_SECRET = os.getenv(\"OAUTH_CLIENT_SECRET\")">>,
       <<"CLIENT_ID\\s*=\\s*[\"\\'][^\"\\']+[\"\\']",
         "CLIENT_ID = os.getenv(\"OAUTH_CLIENT_ID\")">>,
       <<"api_key\\s*=\\s*[\"\\'][^\"\\']+[\"\\']",
         "api_key = os.getenv(\"API_KEY\")">> >>

_fix_hardcoded_secrets(code) ==
    LET sub[k \in 0..Len(replacements)] ==
            IF k = 0
            THEN code
            ELSE [i \in DOMAIN code |->
                     re_sub(replacements[k][1], replacements[k][2], sub[k - 1][i])]
        fixed_code == sub[Len(replacements)]
    IN  IF ~Contains(fixed_code, "import os") /\ Contains(fixed_code, "os.getenv")
        THEN << "import os" >> \o fixed_code
        ELSE fixed_code

_fix_credential_handling(code) ==
    IF ~Contains(code, "import os") THEN << "import os" >> \o code ELSE code

_apply_automatic_fixes(code, violations) ==
    LET fixed[k \in 0..Len(violations)] ==
            IF k = 0
            THEN code
            ELSE IF violations[k].severity = "warning"
                 THEN IF violations[k].rule = "hardcoded_secret"
                      THEN _fix_hardcoded_secrets(fixed[k - 1])
                      ELSE IF violations[k].rule = "credential_handling"
                           THEN _fix_credential_handling(fixed[k - 1])
                           ELSE fixed[k - 1]
                 ELSE fixed[k - 1]
    IN  fixed[Len(violations)]

critical_violations(violations) ==
    SelectSeq(violations, LAMBDA v : v.severity = "error")

\* A sanitizer that applies its fixes first and rejects only for the errors
\* that are left.
validate_and_sanitize_after_fixes(code) ==
    LET fixed    == _apply_automatic_fixes(code, check_violations(code))
        critical == critical_violations(check_violations(fixed))
    IN  IF critical # <<>>
        THEN [raised |-> TRUE,
              exception |-> [type |-> "GuardrailException",
                             message |-> << "Critical violations found: ",
                                            [k \in DOMAIN critical |-> critical[k].message] >>],
              value |-> <<>>]
        ELSE [raised |-> FALSE, exception |-> None, value |-> fixed]

\* validate_and_sanitize: the sanitized text, or the GuardrailException it raises.
validate_and_sanitize(code) ==
    LET violations == check_violations(code)
        critical   == critical_violations(violations)
    IN  IF critical # <<>>
        THEN [raised |-> TRUE,
              exception |-> [type |-> "GuardrailException",
                             message |-> << "Critical violations found: ",
                                            [k \in DOMAIN critical |-> critical[k].message] >>],
              value |-> <<>>]
        ELSE [raised |-> FALSE,
              exception |-> None,
              value |-> _apply_automatic_fixes(code, violations)]

\* What the two public methods compute on each text of the model; the value
\* on a text is computed once and looked up at every call.
check_violations_on == [code \in Candidates \cup Sources |-> check_violations(code)]

validate_and_sanitize_on ==
    [code \in Candidates \cup Sources |-> validate_and_sanitize(code)]

\* GuardrailsEngine.__init__: the attributes of a new engine.
GuardrailsEngine ==
    [forbidden_imports   |-> forbidden_imports,
     forbidden_functions |-> forbidden_functions,
     required_patterns   |-> required_patterns,
     security_patterns   |-> security_patterns]

-----------------------------------------------------------------------------
(* CodeValidator (src/llm/validator.py).                                   *)

_validate_syntax(code) ==
    LET e == ast_parse(code)
    IN  IF e.ok
        THEN [valid |-> TRUE, error |-> ""]
        ELSE [valid |-> FALSE,
              error |-> "Line " \o ToString(e.lineno) \o ": " \o e.msg]

required_imports ==
    << "from mcp import types",
       "from mcp.server import Server",
       "from mcp.server.stdio import stdio_server" >>

problematic_patterns ==
    << <<"import subprocess", "subprocess import detected - potential security risk">>,
       <<"import os", "Direct os import detected - ensure proper usage">>,
       <<"from os import", "Direct os function import - verify security">> >>

\* e.startswith("Warning:") for the entries _validate_imports builds
startswith_Warning(e) ==
    \E k \in DOMAIN problematic_patterns : e = "Warning: " \o problematic_patterns[k][2]

_validate_imports(code) ==
    LET errors ==
            ConcatOver([k \in 1..Len(required_imports) |->
                IF ~Contains(code, required_imports[k])
                THEN << "Missing required import: " \o required_imports[k] >>
                ELSE <<>>])
            \o ConcatOver([k \in 1..Len(problematic_patterns) |->
                IF Contains(code, problematic_patterns[k][1])
                THEN << "Warning: " \o problematic_patterns[k][2] >>
                ELSE <<>>])
    IN  [valid  |-> Len(SelectSeq(errors, LAMBDA e : ~startswith_Warning(e))) = 0,
         errors |-> errors]

required_components ==
    << <<"server = Server(", "Server instance creation">>,
       <<"@server.list_tools()", "list_tools decorator">>,
       <<"async def list_tools(", "list_tools function">>,
       <<"@server.call_tool()", "call_tool decorator">>,
       <<"async def call_tool(", "call_tool function">>,
       <<"types.Tool(", "Tool definition">>,
       <<"types.TextContent(", "TextContent response">>,
       <<"async def main(", "main function">>,
       <<"stdio_server()", "stdio_server usage">> >>

\* A structural stage that reports a failure without naming the component.
_validate_mcp_compliance_unnamed(code) ==
    LET errors ==
            (IF \E k \in DOMAIN required_components :
                    ~Contains(code, required_components[k][1])
             THEN << "MCP compliance check failed" >> ELSE <<>>)
            \o (IF ~Contains(code, "inputSchema")
                THEN << "Tools must have inputSchema defined" >> ELSE <<>>)
            \o (IF ~Contains(code, "\"type\": \"object\"")
                THEN << "Tool schemas must specify type as object" >> ELSE <<>>)
    IN  [valid |-> Len(errors) = 0, errors |-> errors]

_validate_mcp_compliance(code) ==
    LET errors ==
            ConcatOver([k \in 1..Len(required_components) |->
                IF ~Contains(code, required_components[k][1])
                THEN << "Missing " \o required_components[k][2] \o ": "
                            \o required_components[k][1] >>
                ELSE <<>>])
            \o (IF ~Contains(code, "inputSchema")
                THEN << "Tools must have inputSchema defined" >> ELSE <<>>)
            \o (IF ~Contains(code, "\"type\": \"object\"")
                THEN << "Tool schemas must specify type as object" >> ELSE <<>>)
    IN  [valid |-> Len(errors) = 0, errors |-> errors]

oauth_requirements ==
    << <<"CLIENT_ID", "OAuth Client ID definition">>,
       <<"CLIENT_SECRET", "OAuth Client Secret definition">>,
       <<"REDIRECT_URI", "OAuth Redirect URI definition">>,
       <<"get_auth_url", "OAuth URL generation method">>,
       <<"access_token", "Access token handling">> >>

_validate_oauth_implementation(code, oauth_creds) ==
    LET errors ==
            ConcatOver([k \in 1..Len(oauth_requirements) |->
                IF ~Contains(code, oauth_requirements[k][1])
                THEN << "Missing " \o oauth_requirements[k][2] \o ": "
                            \o oauth_requirements[k][1] >>
                ELSE <<>>])
            \o (IF ~Contains(code, "os.getenv")
                   /\ (\E cred \in {"CLIENT_SECRET", "CLIENT_ID"} : Contains(code, cred))
                THEN << "OAuth credentials should use environment variables" >> ELSE <<>>)
            \o (IF ~Contains(code, "\"authenticate\"")
                THEN << "Must include authenticate tool" >> ELSE <<>>)
    IN  [valid |-> Len(errors) = 0, errors |-> errors]

_validate_error_handling(code) ==
    LET warnings ==
            (IF ~Contains(code, "try:") \/ ~Contains(code, "except")
             THEN << "No error handling detected - consider adding try/except blocks" >>
             ELSE <<>>)
            \o (IF Contains(code, "async def") /\ ~Contains(code, "try:")
                THEN << "Async functions should include error handling" >> ELSE <<>>)
            \o (IF Contains(code, "httpx") /\ ~Contains(code, "raise_for_status")
                THEN << "HTTP requests should check for errors with raise_for_status()" >>
                ELSE <<>>)
    IN  [valid |-> Len(warnings) = 0, warnings |-> warnings]

\* CodeValidator.__init__: self.test_timeout, in seconds.  No method reads it.
test_timeout == 30

\* The ways _test_basic_functionality can end.
FunctionalityOutcomes ==
    { "passed", "load_raised", "no_server", "no_tools", "no_authenticate",
      "list_tools_raised", "invalid_response", "call_tool_raised" }

\* The ways _execute_runtime_tests can end; "hang" is a child process or an
\* entrypoint that never returns (no call of the function is given a timeout).
ExecutionOutcomes ==
    FunctionalityOutcomes \cup {"compile_failed", "import_failed", "runtime_exception", "hang"}

\* The outcomes the generated programs of the model show: one per stage of
\* _execute_runtime_tests (py_compile, import, functionality), success, and a hang.
RuntimeOutcomes == {"passed", "compile_failed", "import_failed", "no_tools", "hang"}

\* The text of stderr or of str(e), which the generated program decides.
Detail == "File \"generated_server.py\", line 1, in <module>"

_test_basic_functionality(outcome) ==
    CASE outcome = "passed" -> [passed |-> TRUE, failures |-> <<>>]
      [] outcome = "no_server" ->
           [passed |-> FALSE, failures |-> << "No server instance found" >>]
      [] outcome = "no_tools" ->
           [passed |-> FALSE, failures |-> << "No tools returned from list_tools()" >>]
      [] outcome = "no_authenticate" ->
           [passed |-> FALSE, failures |-> << "Missing required 'authenticate' tool" >>]
      [] outcome = "list_tools_raised" ->
           [passed |-> FALSE, failures |-> << "list_tools() failed: " \o Detail >>]
      [] outcome = "invalid_response" ->
           [passed |-> FALSE, failures |-> << "authenticate tool returned invalid response" >>]
      [] outcome = "call_tool_raised" ->
           [passed |-> FALSE, failures |-> << "call_tool('authenticate') failed: " \o Detail >>]
      [] OTHER ->
           [passed |-> FALSE, failures |-> << "Basic functionality test failed: " \o Detail >>]

_execute_runtime_tests(code, outcome) ==
    CASE outcome = "compile_failed" ->
           [passed |-> FALSE, failures |-> << "Syntax compilation failed: " \o Detail >>]
      [] outcome = "import_failed" ->
           [passed |-> FALSE, failures |-> << "Import test failed: " \o Detail >>]
      [] outcome = "runtime_exception" ->
           [passed |-> FALSE, failures |-> << "Runtime test exception: " \o Detail >>]
      [] OTHER -> _test_basic_functionality(outcome)

\* A step 6 that also waits for the import stage to pass.
runs_runtime_tests_after_imports(code) ==
    /\ _validate_syntax(code).valid
    /\ _validate_imports(code).valid
    /\ _validate_mcp_compliance(code).valid

\* Step 6 runs only behind this condition.
runs_runtime_tests(code) ==
    _validate_syntax(code).valid /\ _validate_mcp_compliance(code).valid

\* A validator whose overall pass also asks for the error-handling stage.
validate_code_strict(code, oauth_creds, outcome) ==
    LET syntax_result         == _validate_syntax(code)
        import_result         == _validate_imports(code)
        mcp_result            == _validate_mcp_compliance(code)
        oauth_result          == _validate_oauth_implementation(code, oauth_creds)
        error_handling_result == _validate_error_handling(code)
        tested                == runs_runtime_tests(code)
        test_result           == _execute_runtime_tests(code, outcome)
        test_execution        == IF tested THEN test_result.passed ELSE FALSE
    IN  IF ~syntax_result.valid
        THEN [passed |-> FALSE, syntax_valid |-> FALSE, imports_valid |-> FALSE,
              mcp_compliance |-> FALSE, oauth_implementation |-> FALSE,
              error_handling |-> FALSE, test_execution |-> FALSE,
              failures |-> << "Syntax error: " \o syntax_result.error >>,
              warnings |-> <<>>,
              error_details |-> syntax_result.error]
        ELSE [passed |-> /\ syntax_result.valid
                         /\ import_result.valid
                         /\ mcp_result.valid
                         /\ oauth_result.valid
                         /\ error_handling_result.valid
                         /\ test_execution,
              syntax_valid |-> syntax_result.valid,
              imports_valid |-> import_result.valid,
              mcp_compliance |-> mcp_result.valid,
              oauth_implementation |-> oauth_result.valid,
              error_handling |-> error_handling_result.valid,
              test_execution |-> test_execution,
              failures |->
                  (IF ~import_result.valid THEN import_result.errors ELSE <<>>)
                  \o (IF ~mcp_result.valid THEN mcp_result.errors ELSE <<>>)
                  \o (IF ~oauth_result.valid THEN oauth_result.errors ELSE <<>>)
                  \o (IF tested /\ ~test_result.passed THEN test_result.failures ELSE <<>>),
              warnings |->
                  IF ~error_handling_result.valid
                  THEN error_handling_result.warnings ELSE <<>>,
              error_details |-> ""]

\* A validator that goes on to the later stages after a syntax error.
validate_code_without_return(code, oauth_creds, outcome) ==
    LET syntax_result         == _validate_syntax(code)
        import_result         == _validate_imports(code)
        mcp_result            == _validate_mcp_compliance(code)
        oauth_result          == _validate_oauth_implementation(code, oauth_creds)
        error_handling_result == _validate_error_handling(code)
        tested                == runs_runtime_tests(code)
        test_result           == _execute_runtime_tests(code, outcome)
        test_execution        == IF tested THEN test_result.passed ELSE FALSE
    IN  [passed |-> /\ syntax_result.valid
                    /\ import_result.valid
                    /\ mcp_result.valid
                    /\ oauth_result.valid
                    /\ test_execution,
         syntax_valid |-> syntax_result.valid,
         imports_valid |-> import_result.valid,
         mcp_compliance |-> mcp_result.valid,
         oauth_implementation |-> oauth_result.valid,
         error_handling |-> error_handling_result.valid,
         test_execution |-> test_execution,
         failures |->
             (IF ~syntax_result.valid
              THEN << "Syntax error: " \o syntax_result.error >> ELSE <<>>)
             \o (IF ~import_result.valid THEN import_result.errors ELSE <<>>)
             \o (IF ~mcp_result.valid THEN mcp_result.errors ELSE <<>>)
             \o (IF ~oauth_result.valid THEN oauth_result.errors ELSE <<>>)
             \o (IF tested /\ ~test_result.passed THEN test_result.failures ELSE <<>>),
         warnings |->
             IF ~error_handling_result.valid
             THEN error_handling_result.warnings ELSE <<>>,
         error_details |-> syntax_result.error]

\* validate_code; `outcome` is what the run of the program does if step 6 runs it.
validate_code(code, oauth_creds, outcome) ==
    LET syntax_result         == _validate_syntax(code)
        import_result         == _validate_imports(code)
        mcp_result            == _validate_mcp_compliance(code)
        oauth_result          == _validate_oauth_implementation(code, oauth_creds)
        error_handling_result == _validate_error_handling(code)
        tested                == runs_runtime_tests(code)
        test_result           == _execute_runtime_tests(code, outcome)
        test_execution        == IF tested THEN test_result.passed ELSE FALSE
    IN  IF ~syntax_result.valid
        THEN [passed |-> FALSE, syntax_valid |-> FALSE, imports_valid |-> FALSE,
              mcp_compliance |-> FALSE, oauth_implementation |-> FALSE,
              error_handling |-> FALSE, test_execution |-> FALSE,
              failures |-> << "Syntax error: " \o syntax_result.error >>,
              warnings |-> <<>>,
              error_details |-> syntax_result.error]
        ELSE [passed |-> /\ syntax_result.valid
                         /\ import_result.valid
                         /\ mcp_result.valid
                         /\ oauth_result.valid
                         /\ test_execution,
              syntax_valid |-> syntax_result.valid,
              imports_valid |-> import_result.valid,
              mcp_compliance |-> mcp_result.valid,
              oauth_implementation |-> oauth_result.valid,
              error_handling |-> error_handling_result.valid,
              test_execution |-> test_execution,
              failures |->
                  (IF ~import_result.valid THEN import_result.errors ELSE <<>>)
                  \o (IF ~mcp_result.valid THEN mcp_result.errors ELSE <<>>)
                  \o (IF ~oauth_result.valid THEN oauth_result.errors ELSE <<>>)
                  \o (IF tested /\ ~test_result.passed THEN test_result.failures ELSE <<>>),
              warnings |->
                  IF ~error_handling_result.valid
                  THEN error_handling_result.warnings ELSE <<>>,
              error_details |-> ""]

-----------------------------------------------------------------------------
(* CodeGenerator.generate_mcp_server (src/llm/code_generator.py).          *)

max_attempts == 3

\* The request of the integration tests.
Request ==
    [platform    |-> "github",
     description |-> "Test GitHub MCP server",
     oauth_creds |-> [client_id    |-> "test_client_id",
                      client_secret |-> "test_secret",
                      redirect_url |-> "http://localhost:8080/callback"],
     user_uuid   |-> "test-uuid-123",
     version     |-> 1]

\* The texts validate_and_sanitize returns for the replies of the backend.
SanitizedCandidates ==
    { validate_and_sanitize_on[code].value :
        code \in { c \in Candidates : ~validate_and_sanitize_on[c].raised } }

\* What validate_code computes on each of them, for each end of the run of
\* step 6 that returns; the value is computed once and looked up at every call.
runs_runtime_tests_on == [code \in SanitizedCandidates |-> runs_runtime_tests(code)]

validate_code_on ==
    [code \in SanitizedCandidates, outcome \in RuntimeOutcomes \ {"hang"} |->
        validate_code(code, Request.oauth_creds, outcome)]

\* The prompt is kept as the list of the pieces that are concatenated into it.
_build_generation_prompt(platform, description, oauth_creds) ==
    << [piece        |-> "generation_prompt",
        platform     |-> platform,
        description  |-> description,
        oauth_client_id |-> oauth_creds.client_id,
        oauth_secret    |-> oauth_creds.client_secret,
        redirect_url    |-> oauth_creds.redirect_url] >>

\* The messages that end with the text of stderr or of str(e).
DetailPrefixes ==
    { "list_tools() failed: ", "call_tool('authenticate') failed: ",
      "Basic functionality test failed: ", "Syntax compilation failed: ",
      "Import test failed: ", "Runtime test exception: " }

\* What json.dumps writes between the quotes for the string s: a double quote is
\* written with a backslash before it.  Of the messages of the validator only
\* those that carry Detail hold a character that json escapes.
json_escape(s) ==
    IF \E p \in DetailPrefixes : s = p \o Detail
    THEN (CHOOSE p \in DetailPrefixes : s = p \o Detail)
             \o "File \\\"generated_server.py\\\", line 1, in <module>"
    ELSE s

\* json.dumps(obj, indent=2) of a list of strings: its lines, each line as the
\* pieces of text that are written one after the other.
json_dumps(obj) ==
    IF Len(obj) = 0
    THEN << << "[]" >> >>
    ELSE << << "[" >> >>
         \o [i \in 1..Len(obj) |->
                << "  \"", json_escape(obj[i]),
                   IF i < Len(obj) THEN "\"," ELSE "\"" >>]
         \o << << "]" >> >>

\* The f-string `feedback` of _enhance_prompt_with_feedback, line by line; its
\* first line ends the last line of the prompt it is appended to.
feedback(results) ==
    << << "" >>, << "PREVIOUS ATTEMPT FAILED WITH THESE ISSUES:" >> >>
    \o json_dumps(results.failures)
    \o << << "" >>,
          << "SPECIFIC ERRORS TO FIX:" >>,
          << results.error_details >>,
          << "" >>,
          << "Please fix these issues in the next generation:" >>,
          << "" >> >>

\* A prompt that keeps the feedback of the last attempt only.
_enhance_prompt_with_last_feedback(original_prompt, results) ==
    << original_prompt[1], [piece |-> "feedback", text |-> feedback(results)] >>

_enhance_prompt_with_feedback(original_prompt, results) ==
    original_prompt \o << [piece |-> "feedback", text |-> feedback(results)] >>

Unbound == <<>>

-----------------------------------------------------------------------------
(* The file system.                                                        *)

\* pathlib: p / name and p.parent
div(path, name) == Append(path, name)

parent(path) == SubSeq(path, 1, Len(path) - 1)

\* Every path from the root down to `path`, `path` included.
parents(path) == { SubSeq(path, 1, n) : n \in 1..Len(path) }

\* `path` is `root` or lies below it.
is_relative_to(path, root) ==
    /\ Len(root) <= Len(path)
    /\ SubSeq(path, 1, Len(root)) = root

\* Path.exists()
exists(f, path) == path \in f.dirs \/ path \in DOMAIN f.files

\* Path.mkdir(parents=True, exist_ok=True)
mkdir(f, path) == [f EXCEPT !.dirs = @ \cup parents(path)]

\* open(path, "w") raises FileNotFoundError when the directory is not there.
can_open_w(f, path) == parent(path) \in f.dirs /\ path \notin f.dirs

\* with open(path, "w") as f: f.write(content)
write(f, path, content) ==
    [f EXCEPT !.files = [q \in DOMAIN @ \cup {path} |->
                            IF q = path THEN content ELSE @[q]]]

\* shutil.rmtree(path)
rmtree(f, path) ==
    [dirs  |-> { d \in f.dirs : ~is_relative_to(d, path) },
     files |-> [q \in { q \in DOMAIN f.files : ~is_relative_to(q, path) } |->
                   f.files[q]]]

\* Path(__file__).parent of server.py and of pipeline.py
builder_dir == << "src", "builder" >>

\* Path(__file__).parent of deployer.py
host_dir == << "src", "host" >>

\* self.builds_base_path
builds_base_path == div(builder_dir, "builds")

\* The directories of the installed repository, with no build made yet.
RepositoryTree ==
    [dirs  |-> parents(builds_base_path) \cup parents(div(host_dir, "terraform")),
     files |-> << >>]

\* str(uuid.uuid4()): the identifier a new user is given.
uuid4 == "1b9d6bcd-bbfd-4b2d-9b5d-ab8dfbbd4bed"

\* user_uuid[:8]
first_8 ==
    [u \in {uuid4, Request.user_uuid} |->
        IF u = uuid4 THEN "1b9d6bcd" ELSE "test-uui"]

\* datetime.now().isoformat()
isoformat_now == "2025-01-01T00:00:00.000000"

\* The state before any call, on the file system f.
InitOn(f) ==
    /\ cancel = [requested |-> FALSE]
    /\ server = [pc |-> "idle", user_db |-> << >>]
    /\ loop = "none"
    /\ fs = f
    /\ pipeline = [pc |-> "none"]
    /\ deployment = [pc |-> "none"]
    /\ pc = "idle"
    /\ attempt = 0
    /\ prompt = Unbound
    /\ generated_code = Unbound
    /\ validated_code = Unbound
    /\ test_results = Unbound
    /\ result = [kind |-> "pending"]
    /\ llm_calls = 0
    /\ history = <<>>
    /\ engine = GuardrailsEngine
    /\ calls = <<>>

Init == InitOn(RepositoryTree)

\* Steps 1 to 3 and the entry into the loop.
Start ==
    /\ pc = "idle"
    /\ prompt' = _build_generation_prompt(Request.platform, Request.description,
                                          Request.oauth_creds)
    /\ attempt' = 0
    /\ pc' = "call_llm"
    /\ UNCHANGED <<generated_code, validated_code, test_results, result,
                   llm_calls, history>>
    /\ UNCHANGED <<engine, calls, cancel>>
    /\ UNCHANGED build_vars

\* A loop that takes a failed backend call for a failed attempt and goes on.
CallLLM_retrying ==
    /\ pc = "call_llm"
    /\ llm_calls' = llm_calls + 1
    /\ \/ \E code \in Candidates :
            /\ generated_code' = code
            /\ history' = Append(history,
                              [attempt |-> attempt + 1, prompt |-> prompt,
                               generated_code |-> code, guardrails |-> "pending",
                               validated_code |-> Unbound, outcome |-> "none",
                               test_results |-> Unbound])
            /\ pc' = "guardrails"
            /\ UNCHANGED <<result, attempt>>
       \/ /\ attempt + 1 < max_attempts
          /\ attempt' = attempt + 1
          /\ pc' = "call_llm"
          /\ UNCHANGED <<generated_code, history, result>>
    /\ UNCHANGED <<prompt, validated_code, test_results>>
    /\ UNCHANGED <<engine, calls, cancel>>
    /\ UNCHANGED build_vars

\* generated_code = await self._call_llm(prompt)
CallLLM ==
    /\ pc = "call_llm"
    /\ llm_calls' = llm_calls + 1
    /\ \/ \E code \in Candidates :
            /\ generated_code' = code
            /\ history' = Append(history,
                              [attempt |-> attempt + 1, prompt |-> prompt,
                               generated_code |-> code, guardrails |-> "pending",
                               validated_code |-> Unbound, outcome |-> "none",
                               test_results |-> Unbound])
            /\ pc' = "guardrails"
            /\ UNCHANGED result
       \/ /\ result' = [kind |-> "raised",
                        exception |-> [type |-> "Exception",
                                       message |-> "LLM call failed: " \o Detail]]
          /\ pc' = "raised"
          /\ UNCHANGED <<generated_code, history>>
    /\ UNCHANGED <<attempt, prompt, validated_code, test_results>>
    /\ UNCHANGED <<engine, calls, cancel>>
    /\ UNCHANGED build_vars

\* validated_code = self.guardrails.validate_and_sanitize(generated_code)
ApplyGuardrails ==
    /\ pc = "guardrails"
    /\ LET r == validate_and_sanitize_on[generated_code]
           n == Len(history)
       IN  IF r.raised
           THEN /\ result' = [kind |-> "raised", exception |-> r.exception]
                /\ pc' = "raised"
                /\ history' = [history EXCEPT ![n].guardrails = "rejected"]
                /\ UNCHANGED validated_code
           ELSE /\ validated_code' = r.value
                /\ pc' = "validate"
                /\ history' = [history EXCEPT ![n].guardrails = "passed",
                                              ![n].validated_code = r.value]
                /\ UNCHANGED result
    /\ UNCHANGED <<attempt, prompt, generated_code, test_results, llm_calls>>
    /\ UNCHANGED <<engine, calls, cancel>>
    /\ UNCHANGED build_vars

\* test_results = await self.validator.validate_code(validated_code, platform, oauth_creds)
ValidateCode ==
    /\ pc = "validate"
    /\ \E outcome \in RuntimeOutcomes :
          /\ ~runs_runtime_tests_on[validated_code] => outcome = "passed"
          /\ IF outcome = "hang"
             THEN /\ pc' = "hung"
                  /\ UNCHANGED <<test_results, history>>
             ELSE LET report == validate_code_on[validated_code, outcome]
                  IN  /\ test_results' = report
                      /\ history' = [history EXCEPT ![Len(history)].test_results = report,
                                                    ![Len(history)].outcome = outcome]
                      /\ pc' = "decide"
    /\ UNCHANGED <<attempt, prompt, generated_code, validated_code, result, llm_calls>>
    /\ UNCHANGED <<engine, calls, cancel>>
    /\ UNCHANGED build_vars

\* A return of success that does not look at the report.
Accept_unchecked ==
    /\ pc = "decide"
    /\ result' = [kind |-> "returned",
                  value |-> [success      |-> TRUE,
                             code         |-> validated_code,
                             test_results |-> test_results,
                             attempt      |-> attempt + 1]]
    /\ pc' = "returned"
    /\ UNCHANGED <<attempt, prompt, generated_code, validated_code, test_results,
                   llm_calls, history>>
    /\ UNCHANGED <<engine, calls, cancel>>
    /\ UNCHANGED build_vars

\* if test_results["passed"]: return {...}
Accept ==
    /\ pc = "decide"
    /\ test_results.passed
    /\ result' = [kind |-> "returned",
                  value |-> [success      |-> TRUE,
                             code         |-> validated_code,
                             test_results |-> test_results,
                             attempt      |-> attempt + 1]]
    /\ pc' = "returned"
    /\ UNCHANGED <<attempt, prompt, generated_code, validated_code, test_results,
                   llm_calls, history>>
    /\ UNCHANGED <<engine, calls, cancel>>
    /\ UNCHANGED build_vars

\* A loop that does not stop at max_attempts.
Retry_unbounded ==
    /\ pc = "decide"
    /\ ~test_results.passed
    /\ prompt' = _enhance_prompt_with_feedback(prompt, test_results)
    /\ attempt' = attempt + 1
    /\ pc' = "call_llm"
    /\ UNCHANGED <<generated_code, validated_code, test_results, result,
                   llm_calls, history>>
    /\ UNCHANGED <<engine, calls, cancel>>
    /\ UNCHANGED build_vars

\* else: the feedback is appended to the prompt; the loop goes on to its next value
Retry ==
    /\ pc = "decide"
    /\ ~test_results.passed
    /\ attempt + 1 < max_attempts
    /\ prompt' = _enhance_prompt_with_feedback(prompt, test_results)
    /\ attempt' = attempt + 1
    /\ pc' = "call_llm"
    /\ UNCHANGED <<generated_code, validated_code, test_results, result,
                   llm_calls, history>>
    /\ UNCHANGED <<engine, calls, cancel>>
    /\ UNCHANGED build_vars

\* A failure dict that carries the backend's text instead of the sanitized one.
Exhaust_unsanitized ==
    /\ pc = "decide"
    /\ ~test_results.passed
    /\ ~(attempt + 1 < max_attempts)
    /\ prompt' = _enhance_prompt_with_feedback(prompt, test_results)
    /\ result' = [kind |-> "returned",
                  value |-> [success      |-> FALSE,
                             error        |-> "Code generation failed after maximum attempts",
                             last_attempt |-> generated_code,
                             test_results |-> test_results]]
    /\ pc' = "returned"
    /\ UNCHANGED <<attempt, generated_code, validated_code, test_results,
                   llm_calls, history>>
    /\ UNCHANGED <<engine, calls, cancel>>
    /\ UNCHANGED build_vars

\* else: the feedback is appended; the loop is over; the failure dict is returned
Exhaust ==
    /\ pc = "decide"
    /\ ~test_results.passed
    /\ ~(attempt + 1 < max_attempts)
    /\ prompt' = _enhance_prompt_with_feedback(prompt, test_results)
    /\ result' = [kind |-> "returned",
                  value |-> [success      |-> FALSE,
                             error        |-> "Code generation failed after maximum attempts",
                             last_attempt |-> validated_code,
                             test_results |-> test_results]]
    /\ pc' = "returned"
    /\ UNCHANGED <<attempt, generated_code, validated_code, test_results,
                   llm_calls, history>>
    /\ UNCHANGED <<engine, calls, cancel>>
    /\ UNCHANGED build_vars

Next ==
    \/ Start
    \/ CallLLM
    \/ ApplyGuardrails
    \/ ValidateCode
    \/ Accept
    \/ Retry
    \/ Exhaust

Spec == Init /\ [][Next]_vars

-----------------------------------------------------------------------------
(* A client of one GuardrailsEngine that calls its two public methods, on    *)
(* any text and in any order.                                               *)

\* The number of calls a client makes.
MaxCalls == 3

generator_vars == <<pc, attempt, prompt, generated_code, validated_code,
                    test_results, result, llm_calls, history>>

\* A check_violations that keeps its list of violations on the engine.
CheckViolations_accumulating ==
    /\ Len(calls) < MaxCalls
    /\ \E code \in Sources :
          LET earlier == IF "violations" \in DOMAIN engine
                         THEN engine.violations ELSE <<>>
              violations == earlier \o check_violations_on[code]
          IN  /\ calls' = Append(calls, [method |-> "check_violations",
                                         code |-> code, result |-> violations])
              /\ engine' = [forbidden_imports   |-> engine.forbidden_imports,
                            forbidden_functions |-> engine.forbidden_functions,
                            required_patterns   |-> engine.required_patterns,
                            security_patterns   |-> engine.security_patterns,
                            violations          |-> violations]
    /\ UNCHANGED generator_vars
    /\ UNCHANGED cancel
    /\ UNCHANGED build_vars

\* violations = engine.check_violations(code)
CheckViolations ==
    /\ Len(calls) < MaxCalls
    /\ \E code \in Sources :
          calls' = Append(calls, [method |-> "check_violations",
                                 code |-> code, result |-> check_violations_on[code]])
    /\ UNCHANGED engine
    /\ UNCHANGED generator_vars
    /\ UNCHANGED cancel
    /\ UNCHANGED build_vars

\* sanitized_code = engine.validate_and_sanitize(code), or its GuardrailException
ValidateAndSanitize ==
    /\ Len(calls) < MaxCalls
    /\ \E code \in Sources :
          calls' = Append(calls, [method |-> "validate_and_sanitize",
                                 code |-> code, result |-> validate_and_sanitize_on[code]])
    /\ UNCHANGED engine
    /\ UNCHANGED generator_vars
    /\ UNCHANGED cancel
    /\ UNCHANGED build_vars

EngineNext ==
    \/ CheckViolations
    \/ ValidateAndSanitize

EngineSpec == Init /\ [][EngineNext]_vars

-----------------------------------------------------------------------------
(* The request handler: src/builder/server.py.                             *)

\* The number of versions of one user and platform.
MaxVersion == 3

\* str(path)
RECURSIVE posix(_)
posix(path) ==
    IF Len(path) = 1 THEN path[1]
    ELSE posix(parent(path)) \o "/" \o path[Len(path)]

\* max(versions)
max(versions) == CHOOSE v \in versions : \A w \in versions : w <= v

\* arguments.get(key)
get(arguments, key) == IF key \in DOMAIN arguments THEN arguments[key] ELSE None

\* bool(value) for a string or None
truthy(value) == value # None /\ value # ""

\* The parameters build_mcp_server asks for.
build_parameters ==
    << "platform", "user_email", "client_id", "client_secret", "redirect_url",
       "description" >>

\* The arguments of test_build_tool_success, with the request of generate_mcp_server.
valid_arguments ==
    [platform      |-> Request.platform,
     user_email    |-> "test@example.com",
     client_id     |-> Request.oauth_creds.client_id,
     client_secret |-> Request.oauth_creds.client_secret,
     redirect_url  |-> Request.oauth_creds.redirect_url,
     description   |-> Request.description]

\* The arguments of test_build_tool_missing_params.
missing_params_arguments ==
    [platform |-> "github", user_email |-> "test@example.com"]

\* The arguments of test_build_tool_unsupported_platform.
unsupported_platform_arguments ==
    [valid_arguments EXCEPT !.platform = "unsupported_platform",
                            !.description = "Test description"]

\* Arguments whose client_secret is the empty string.
empty_secret_arguments == [valid_arguments EXCEPT !.client_secret = ""]

known_platforms == { "github", "gmail", "slack", "twitter", "discord", "notion" }

\* The platform names of the requests are written in lower case, so that
\* platform.lower() is the name itself.
assess_platform_api(platform) ==
    IF platform \in known_platforms
    THEN [viable |-> TRUE, oauth_required |-> TRUE]
    ELSE [viable |-> TRUE, oauth_required |-> TRUE, needs_research |-> TRUE]

\* mock_assess.return_value of test_build_tool_unsupported_platform
mock_assess == [viable |-> FALSE]

\* The requests served: the arguments, and whether assess_platform_api is the
\* patched one of the unit test.
BuildRequests ==
    { [arguments |-> valid_arguments,                patched |-> FALSE],
      [arguments |-> missing_params_arguments,       patched |-> FALSE],
      [arguments |-> empty_secret_arguments,         patched |-> FALSE],
      [arguments |-> unsupported_platform_arguments, patched |-> TRUE] }

\* A request reaches call_tool through MCPHandler.do_POST, on a loop of its own,
\* or is awaited by a caller whose loop goes on running.
Transports == { "http", "await" }

\* get_user_uuid: the mapping after the call and the identifier returned.
get_user_uuid(user_db, email) ==
    IF email \in DOMAIN user_db
    THEN [user_db |-> user_db, uuid |-> user_db[email]]
    ELSE [user_db |-> [e \in DOMAIN user_db \cup {email} |->
                          IF e = email THEN uuid4 ELSE user_db[e]],
          uuid    |-> uuid4]

get_builds_path(user_uuid, platform, version) ==
    div(div(div(builds_base_path, user_uuid), platform), ToString(version))

\* [int(p.name) for p in base.iterdir() if p.is_dir() and p.name.isdigit()]
existing_versions(f, base) ==
    { v \in 1..MaxVersion : div(base, ToString(v)) \in f.dirs }

\* json.dumps(prompt_data, indent=2): its lines, each line as the pieces of
\* text that are written one after the other.
json_dumps_prompt_data(d) ==
    << << "{" >>,
       << "  \"platform\": \"", json_escape(d.platform), "\"," >>,
       << "  \"description\": \"", json_escape(d.description), "\"," >>,
       << "  \"oauth_credentials\": {" >>,
       << "    \"client_id\": \"", json_escape(d.oauth_credentials.client_id), "\"," >>,
       << "    \"client_secret\": \"", json_escape(d.oauth_credentials.client_secret), "\"," >>,
       << "    \"redirect_url\": \"", json_escape(d.oauth_credentials.redirect_url), "\"" >>,
       << "  }," >>,
       << "  \"user_uuid\": \"", json_escape(d.user_uuid), "\"," >>,
       << "  \"version\": ", ToString(d.version), "," >>,
       << "  \"timestamp\": \"", d.timestamp,
          IF "status" \in DOMAIN d THEN "\"," ELSE "\"" >> >>
    \o (IF "status" \in DOMAIN d
        THEN << << "  \"status\": \"", json_escape(d.status), "\"" >> >>
        ELSE << >>)
    \o << << "}" >> >>

TextContent(type, text) == [type |-> type, text |-> text]

\* f"{user_uuid}/{platform}/v{version}"
build_id(user_uuid, platform, version) ==
    user_uuid \o "/" \o platform \o "/v" \o ToString(version)

\* The pipeline_result and the arguments a new execute_build_pipeline task
\* begins with.
execute_build_pipeline(user_uuid, user_email, platform, description, oauth_creds, version) ==
    [pc          |-> "setup",
     user_uuid   |-> user_uuid,
     user_email  |-> user_email,
     platform    |-> platform,
     description |-> description,
     oauth_creds |-> oauth_creds,
     version     |-> version,
     build_path  |-> div(div(div(builds_base_path, user_uuid), platform),
                         ToString(version)),
     pipeline_result |-> [success         |-> FALSE,
                          build_id        |-> build_id(user_uuid, platform, version),
                          stages          |-> << >>,
                          error           |-> None,
                          deployment_info |-> None]]

\* A handler that makes the build directory and prompt.txt before it assesses
\* the platform.
build_mcp_server_storing_first(user_db, f, arguments, patched, importable) ==
    LET platform    == get(arguments, "platform")
        user_email  == get(arguments, "user_email")
        description == get(arguments, "description")
        complete    == \A i \in DOMAIN build_parameters :
                           truthy(get(arguments, build_parameters[i]))
        user        == get_user_uuid(user_db, user_email)
        assessment  == IF patched THEN mock_assess ELSE assess_platform_api(platform)
        base_builds_path == div(div(builds_base_path, user.uuid), platform)
        versions    == existing_versions(f, base_builds_path)
        version     == IF base_builds_path \in f.dirs /\ versions # {}
                       THEN max(versions) + 1 ELSE 1
        build_path  == get_builds_path(user.uuid, platform, version)
        prompt_data == [platform    |-> platform,
                        description |-> description,
                        oauth_credentials |->
                            [client_id     |-> get(arguments, "client_id"),
                             client_secret |-> get(arguments, "client_secret"),
                             redirect_url  |-> get(arguments, "redirect_url")],
                        user_uuid   |-> user.uuid,
                        version     |-> version,
                        timestamp   |-> isoformat_now]
        stored      == write(mkdir(f, build_path), div(build_path, "prompt.txt"),
                             [text |-> json_dumps_prompt_data(prompt_data)])
    IN  IF ~complete
        THEN [raised |-> FALSE, user_db |-> user_db, fs |-> f, created |-> FALSE,
              value |-> << TextContent("text",
                  "Error: All parameters are required (platform, user_email, client_id, client_secret, redirect_url, description)") >>]
        ELSE IF ~assessment.viable
        THEN [raised |-> FALSE, user_db |-> user.user_db, fs |-> stored, created |-> FALSE,
              value |-> << TextContent("text",
                  "Platform " \o platform
                  \o " is not currently supported, but your request has been noted for future development.") >>]
        ELSE IF ~importable
        THEN [raised |-> TRUE, user_db |-> user.user_db, fs |-> stored, created |-> FALSE,
              exception |-> [type |-> "ImportError",
                             message |-> "attempted relative import with no known parent package"]]
        ELSE [raised |-> FALSE, user_db |-> user.user_db, fs |-> stored,
              created |-> TRUE,
              task  |-> execute_build_pipeline(user.uuid, user_email, platform,
                                               description,
                                               prompt_data.oauth_credentials, version),
              value |-> << TextContent("text",
                  "MCP server build initiated for " \o platform \o ". Build ID: "
                  \o build_id(user.uuid, platform, version)
                  \o ". You will receive an email when deployment is complete.") >>]

\* The branch `elif name == "build_mcp_server"` of call_tool: what it returns
\* or raises, with the user_db and the file system it leaves and the task it
\* created.  `importable` says whether `from .pipeline import pipeline`
\* succeeds in the process.
build_mcp_server(user_db, f, arguments, patched, importable) ==
    LET platform    == get(arguments, "platform")
        user_email  == get(arguments, "user_email")
        description == get(arguments, "description")
        complete    == \A i \in DOMAIN build_parameters :
                           truthy(get(arguments, build_parameters[i]))
        user        == get_user_uuid(user_db, user_email)
        assessment  == IF patched THEN mock_assess ELSE assess_platform_api(platform)
        base_builds_path == div(div(builds_base_path, user.uuid), platform)
        versions    == existing_versions(f, base_builds_path)
        version     == IF base_builds_path \in f.dirs /\ versions # {}
                       THEN max(versions) + 1 ELSE 1
        build_path  == get_builds_path(user.uuid, platform, version)
        prompt_data == [platform    |-> platform,
                        description |-> description,
                        oauth_credentials |->
                            [client_id     |-> get(arguments, "client_id"),
                             client_secret |-> get(arguments, "client_secret"),
                             redirect_url  |-> get(arguments, "redirect_url")],
                        user_uuid   |-> user.uuid,
                        version     |-> version,
                        timestamp   |-> isoformat_now]
        stored      == write(mkdir(f, build_path), div(build_path, "prompt.txt"),
                             [text |-> json_dumps_prompt_data(prompt_data)])
    IN  IF ~complete
        THEN [raised |-> FALSE, user_db |-> user_db, fs |-> f, created |-> FALSE,
              value |-> << TextContent("text",
                  "Error: All parameters are required (platform, user_email, client_id, client_secret, redirect_url, description)") >>]
        ELSE IF ~assessment.viable
        THEN [raised |-> FALSE, user_db |-> user.user_db, fs |-> f, created |-> FALSE,
              value |-> << TextContent("text",
                  "Platform " \o platform
                  \o " is not currently supported, but your request has been noted for future development.") >>]
        ELSE IF ~importable
        THEN [raised |-> TRUE, user_db |-> user.user_db, fs |-> stored, created |-> FALSE,
              exception |-> [type |-> "ImportError",
                             message |-> "attempted relative import with no known parent package"]]
        ELSE [raised |-> FALSE, user_db |-> user.user_db, fs |-> stored,
              created |-> TRUE,
              task  |-> execute_build_pipeline(user.uuid, user_email, platform,
                                               description,
                                               prompt_data.oauth_credentials, version),
              value |-> << TextContent("text",
                  "MCP server build initiated for " \o platform \o ". Build ID: "
                  \o build_id(user.uuid, platform, version)
                  \o ". You will receive an email when deployment is complete.") >>]

\* One tools/call request for build_mcp_server.  Served by do_POST, the
\* coroutine runs on a new loop until it has returned, and what it returned or
\* raised is written as the 200 or the 500 response; a task it created has then
\* one more turn on that loop.  Awaited by a caller, the caller gets what it
\* returned or raised and the caller's loop goes on.
call_tool ==
    /\ server.pc = "idle"
    /\ \E request \in BuildRequests, transport \in Transports, importable \in BOOLEAN :
          LET r == build_mcp_server(server.user_db, fs, request.arguments,
                                    request.patched, importable)
          IN  /\ server' = [pc        |-> "responded",
                            user_db   |-> r.user_db,
                            arguments |-> request.arguments,
                            transport |-> transport,
                            response  |->
                                IF r.raised
                                THEN IF transport = "http"
                                     THEN [status |-> 500, error |-> r.exception.message]
                                     ELSE [raised |-> r.exception]
                                ELSE IF transport = "http"
                                     THEN [status |-> 200, content |-> r.value]
                                     ELSE [returned |-> r.value]]
              /\ fs' = r.fs
              /\ pipeline' = IF r.created THEN r.task ELSE pipeline
              /\ loop' = IF transport = "await" THEN "running"
                         ELSE IF r.created THEN "last_turn" ELSE "stopped"
    /\ UNCHANGED deployment
    /\ UNCHANGED generator_vars
    /\ UNCHANGED <<engine, calls, cancel>>

-----------------------------------------------------------------------------
(* The build pipeline: src/builder/pipeline.py.                            *)

\* str(e) of the OSError a file operation raises.
OSErrorText == "[Errno 28] No space left on device"

\* The task is suspended at an await that gives the control back to the loop:
\* the subprocesses of the runtime tests and those of the deployer.
Suspended ==
    \/ /\ pipeline.pc = "code_generation"
       /\ pc = "validate"
       /\ runs_runtime_tests_on[validated_code]
    \/ deployment.pc \in {"create_github_repo", "push_code", "verify_health"}

\* The task gets its next step from the loop: always on a loop that goes on
\* running, and up to its first suspension on the loop of one request.
TaskRuns ==
    \/ loop \in {"none", "running"}
    \/ loop = "last_turn" /\ ~Suspended

\* pipeline_result["stages"][stage] = stage_result; on a failed stage the error
\* is taken over and the pipeline returns.
stage_done(p, stage, stage_result, next_pc) ==
    [p EXCEPT !.pipeline_result.stages =
                    [n \in DOMAIN @ \cup {stage} |->
                        IF n = stage THEN stage_result ELSE @[n]],
              !.pipeline_result.error =
                    IF stage_result.success THEN @ ELSE stage_result.error,
              !.pc = IF stage_result.success THEN next_pc ELSE "returned"]

\* _update_build_metadata: metadata.json is read, updated and written again.
_update_build_metadata(f, build_path, updates) ==
    LET metadata_file == div(build_path, "metadata.json")
        metadata == IF exists(f, metadata_file)
                    THEN f.files[metadata_file].json ELSE << >>
        keys     == DOMAIN metadata \cup DOMAIN updates \cup {"last_updated"}
    IN  write(f, metadata_file,
              [json |-> [k \in keys |->
                            IF k = "last_updated" THEN isoformat_now
                            ELSE IF k \in DOMAIN updates THEN updates[k]
                            ELSE metadata[k]]])

\* Stage 1.  The directories, prompt.txt and metadata.json are made; an OSError
\* of a file operation gives the failed stage result.
_setup_build_directory ==
    /\ pipeline.pc = "setup"
    /\ TaskRuns
    /\ \E raised \in BOOLEAN :
          LET build_path  == pipeline.build_path
              prompt_data == [platform    |-> pipeline.platform,
                              description |-> pipeline.description,
                              oauth_credentials |->
                                  [client_id     |-> pipeline.oauth_creds.client_id,
                                   client_secret |-> pipeline.oauth_creds.client_secret,
                                   redirect_url  |-> pipeline.oauth_creds.redirect_url],
                              user_uuid   |-> pipeline.user_uuid,
                              version     |-> pipeline.version,
                              timestamp   |-> isoformat_now,
                              status      |-> "building"]
              metadata    == [build_id   |-> build_id(pipeline.user_uuid,
                                                      pipeline.platform,
                                                      pipeline.version),
                              created_at |-> isoformat_now,
                              platform   |-> pipeline.platform,
                              version    |-> pipeline.version,
                              user_uuid  |-> pipeline.user_uuid,
                              status     |-> "building",
                              stages     |-> << >>]
              made        == mkdir(mkdir(fs, build_path), div(build_path, "mcp"))
              prompted    == write(made, div(build_path, "prompt.txt"),
                                   [text |-> json_dumps_prompt_data(prompt_data)])
          IN  IF raised
              THEN /\ pipeline' = stage_done(pipeline, "setup",
                                     [success |-> FALSE,
                                      error   |-> "Build directory setup failed: "
                                                  \o OSErrorText],
                                     "returned")
                   /\ UNCHANGED fs
              ELSE /\ fs' = write(prompted, div(build_path, "metadata.json"),
                                  [json |-> metadata])
                   /\ pipeline' = stage_done(pipeline, "setup", [success |-> TRUE],
                                             "code_generation")
    /\ UNCHANGED <<server, loop, deployment>>
    /\ UNCHANGED generator_vars
    /\ UNCHANGED <<engine, calls, cancel>>

\* Stage 2, the call: generate_mcp_server runs as a part of the pipeline task.
generate_mcp_server ==
    /\ pipeline.pc = "code_generation"
    /\ TaskRuns
    /\ Next

\* A stage that hands on the last candidate of a generation that failed.
_generate_code_stage_unchecked ==
    /\ pipeline.pc = "code_generation"
    /\ pc \in {"returned", "raised"}
    /\ TaskRuns
    /\ IF pc = "raised"
       THEN /\ pipeline' = stage_done(pipeline, "code_generation",
                              [success |-> FALSE,
                               error   |-> << "Code generation stage failed: ",
                                              result.exception.message >>],
                              "returned")
            /\ UNCHANGED fs
       ELSE IF ~result.value.success
       THEN /\ pipeline' = stage_done(pipeline, "code_generation",
                              [success      |-> TRUE,
                               code         |-> result.value.last_attempt,
                               test_results |-> result.value.test_results,
                               attempt      |-> max_attempts],
                              "save_code")
            /\ UNCHANGED fs
       ELSE /\ fs' = _update_build_metadata(fs, pipeline.build_path,
                        [code_generation |->
                            [completed_at |-> isoformat_now,
                             attempt      |-> result.value.attempt,
                             test_results |-> result.value.test_results]])
            /\ pipeline' = stage_done(pipeline, "code_generation",
                              [success      |-> TRUE,
                               code         |-> result.value.code,
                               test_results |-> result.value.test_results,
                               attempt      |-> result.value.attempt],
                              "save_code")
    /\ UNCHANGED <<server, loop, deployment>>
    /\ UNCHANGED generator_vars
    /\ UNCHANGED <<engine, calls, cancel>>

\* Stage 2, after the call: what _generate_code_stage makes of the result or of
\* the exception of generate_mcp_server, and what execute_build_pipeline does
\* with it.  An error that takes over another text is the pair of its pieces.
_generate_code_stage ==
    /\ pipeline.pc = "code_generation"
    /\ pc \in {"returned", "raised"}
    /\ TaskRuns
    /\ IF pc = "raised"
       THEN /\ pipeline' = stage_done(pipeline, "code_generation",
                              [success |-> FALSE,
                               error   |-> << "Code generation stage failed: ",
                                              result.exception.message >>],
                              "returned")
            /\ UNCHANGED fs
       ELSE IF ~result.value.success
       THEN /\ pipeline' = stage_done(pipeline, "code_generation",
                              [success |-> FALSE,
                               error   |-> << "Code generation failed: ",
                                              result.value.error >>],
                              "returned")
            /\ UNCHANGED fs
       ELSE /\ fs' = _update_build_metadata(fs, pipeline.build_path,
                        [code_generation |->
                            [completed_at |-> isoformat_now,
                             attempt      |-> result.value.attempt,
                             test_results |-> result.value.test_results]])
            /\ pipeline' = stage_done(pipeline, "code_generation",
                              [success      |-> TRUE,
                               code         |-> result.value.code,
                               test_results |-> result.value.test_results,
                               attempt      |-> result.value.attempt],
                              "save_code")
    /\ UNCHANGED <<server, loop, deployment>>
    /\ UNCHANGED generator_vars
    /\ UNCHANGED <<engine, calls, cancel>>

\* README.md of the generated server
readme_content ==
    << "# Generated MCP Server", "pip install -r requirements.txt",
       "python server.py", "python test_server.py",
       "Generated at: " \o isoformat_now >>

\* Stage 3.  generation_result["code"] is written to mcp/server.py; the
\* templates are copied where the cookiecutter directory has them.
_save_generated_code ==
    /\ pipeline.pc = "save_code"
    /\ TaskRuns
    /\ \E raised \in BOOLEAN :
          LET mcp_dir        == div(pipeline.build_path, "mcp")
              generated      == pipeline.pipeline_result.stages["code_generation"].code
              template_requirements ==
                  div(div(builder_dir, "cookiecutter"), "requirements.txt")
              test_template  ==
                  div(div(builder_dir, "cookiecutter"),
                      "test_{{cookiecutter.platform_name}}_server.py")
              saved          == write(fs, div(mcp_dir, "server.py"), [text |-> generated])
              with_requirements ==
                  IF exists(saved, template_requirements)
                  THEN write(saved, div(mcp_dir, "requirements.txt"),
                             saved.files[template_requirements])
                  ELSE saved
              with_test      ==
                  IF exists(with_requirements, test_template)
                  THEN write(with_requirements, div(mcp_dir, "test_server.py"),
                             with_requirements.files[test_template])
                  ELSE with_requirements
          IN  IF raised
              THEN /\ pipeline' = stage_done(pipeline, "save_code",
                                     [success |-> FALSE,
                                      error   |-> "Code save failed: " \o OSErrorText],
                                     "returned")
                   /\ UNCHANGED fs
              ELSE /\ fs' = write(with_test, div(mcp_dir, "README.md"),
                                  [text |-> readme_content])
                   /\ pipeline' = stage_done(pipeline, "save_code", [success |-> TRUE],
                                             "deployment")
    /\ UNCHANGED <<server, loop, deployment>>
    /\ UNCHANGED generator_vars
    /\ UNCHANGED <<engine, calls, cancel>>

-----------------------------------------------------------------------------
(* The deployer: src/host/deployer.py.                                     *)

\* self.config.github_org
github_org == "mcp-builder-org"

\* f"mcp-{platform}-{user_uuid[:8]}", as the pieces of the f-string
repo_name_of(platform, user_uuid) == << "mcp-", platform, "-", first_8[user_uuid] >>

\* "".join(pieces)
RECURSIVE concat(_)
concat(pieces) ==
    IF pieces = << >> THEN "" ELSE pieces[1] \o concat(Tail(pieces))

\* What stands before the first "-" of a piece that has one.
before_dash == [piece \in {"mcp-", "-"} |-> IF piece = "mcp-" THEN "mcp" ELSE ""]

\* repo_name.split('-')[0]: the text before the first "-" of the name
RECURSIVE split_0(_)
split_0(pieces) ==
    IF pieces = << >> THEN ""
    ELSE IF pieces[1] \in DOMAIN before_dash THEN before_dash[pieces[1]]
    ELSE pieces[1] \o split_0(Tail(pieces))

\* The directory _link_to_fastmcp writes to.
link_build_path(repo_name, user_uuid) ==
    div(div(div(div(parent(host_dir), "builds"), user_uuid), split_0(repo_name)), "1")

\* The local deployment_result and the arguments a call of deploy_mcp_server
\* begins with.
deploy_mcp_server(user_uuid, platform, version, build_path) ==
    [pc         |-> "create_github_repo",
     user_uuid  |-> user_uuid,
     platform   |-> platform,
     version    |-> version,
     build_path |-> build_path,
     repo_info  |-> Unbound,
     pushed     |-> Unbound,
     deployment_result |-> [success        |-> FALSE,
                            github_repo    |-> None,
                            fastmcp_url    |-> None,
                            deployment_url |-> None,
                            error          |-> None]]

\* return deployment_result, with its error set
deployment_failed(d, error) ==
    [d EXCEPT !.deployment_result.error = error, !.pc = "returned"]

\* Step 1.  _apply_terraform writes terraform.tfvars and runs terraform init,
\* plan and apply; a command that fails gives the failed result.
_create_github_repo ==
    /\ deployment.pc = "create_github_repo"
    /\ TaskRuns
    /\ \E terraform \in {"applied", "apply_failed"} :
          LET repo_name == repo_name_of(deployment.platform, deployment.user_uuid)
              tfvars    == [repo_name   |-> concat(repo_name),
                            description |-> "Generated MCP server for "
                                            \o deployment.platform,
                            private     |-> "False",
                            auto_init   |-> "True"]
              repo_info == [success   |-> TRUE,
                            repo_name |-> repo_name,
                            repo_url  |-> "https://github.com/" \o github_org \o "/"
                                          \o concat(repo_name),
                            clone_url |-> "https://github.com/" \o github_org \o "/"
                                          \o concat(repo_name) \o ".git"]
              tfvars_file == div(div(host_dir, "terraform"), "terraform.tfvars")
          IN  IF ~can_open_w(fs, tfvars_file)
              THEN /\ terraform = "apply_failed"
                   /\ deployment' = deployment_failed(deployment,
                          "Terraform execution failed: [Errno 2] No such file or directory: '"
                          \o posix(tfvars_file) \o "'")
                   /\ UNCHANGED fs
              ELSE
              /\ fs' = write(fs, tfvars_file, [tfvars |-> tfvars])
              /\ IF terraform = "apply_failed"
                 THEN deployment' = deployment_failed(deployment,
                                        "Terraform apply failed: " \o Detail)
                 ELSE deployment' =
                        [deployment EXCEPT
                            !.pc = "push_code",
                            !.repo_info = repo_info,
                            !.deployment_result.github_repo = repo_info.repo_url]
    /\ UNCHANGED <<server, loop, pipeline>>
    /\ UNCHANGED generator_vars
    /\ UNCHANGED <<engine, calls, cancel>>

\* The files that stand directly in the directory.
files_in(f, dir) == { q \in DOMAIN f.files : parent(q) = dir }

\* git clone made temp_repo and the files of mcp/ were copied into it.
cloned_and_copied(f, build_path) ==
    LET temp_repo_path == div(parent(build_path), "temp_repo")
        mcp_source     == div(build_path, "mcp")
        cloned         == write(mkdir(f, temp_repo_path),
                                div(div(temp_repo_path, ".git"), "HEAD"),
                                [text |-> << "ref: refs/heads/main" >>])
        copied         == files_in(f, mcp_source)
    IN  [dirs  |-> cloned.dirs \cup {div(temp_repo_path, ".git")},
         files |-> [q \in DOMAIN cloned.files
                          \cup { div(temp_repo_path, item[Len(item)]) : item \in copied }
                    |-> IF parent(q) = temp_repo_path
                        THEN f.files[div(mcp_source, q[Len(q)])]
                        ELSE cloned.files[q]]]

\* What git clone says of a destination that is there already with files in
\* it, and what it says when it fails for a reason of its own.
git_clone_stderr(f, temp_repo_path) ==
    IF exists(f, temp_repo_path)
    THEN "fatal: destination path '" \o posix(temp_repo_path)
         \o "' already exists and is not an empty directory."
    ELSE Detail

\* Step 2.  git clone fails when temp_repo is there already with files in it,
\* or for a reason of its own; the copy may raise; git add, commit or push may
\* fail; only after the push is temp_repo removed.
_push_code_to_repo ==
    /\ deployment.pc = "push_code"
    /\ TaskRuns
    /\ \E outcome \in {"clone_failed", "copy_raised", "git_failed", "pushed"} :
          LET temp_repo_path == div(parent(deployment.build_path), "temp_repo")
              working        == cloned_and_copied(fs, deployment.build_path)
          IN  /\ exists(fs, temp_repo_path) => outcome = "clone_failed"
              /\ CASE outcome = "clone_failed" ->
                        /\ deployment' = deployment_failed(deployment,
                                             "Git clone failed: "
                                             \o git_clone_stderr(fs, temp_repo_path))
                        /\ UNCHANGED fs
                   [] outcome = "copy_raised" ->
                        /\ deployment' = deployment_failed(deployment,
                                             "Code push failed: " \o OSErrorText)
                        /\ fs' = working
                   [] outcome = "git_failed" ->
                        /\ deployment' = deployment_failed(deployment,
                                             "Git push failed: " \o Detail)
                        /\ fs' = working
                   [] outcome = "pushed" ->
                        /\ deployment' =
                              [deployment EXCEPT
                                  !.pc = "link_to_fastmcp",
                                  !.pushed = [q \in files_in(working, temp_repo_path)
                                                 |-> working.files[q]]]
                        /\ fs' = rmtree(working, temp_repo_path)
    /\ UNCHANGED <<server, loop, pipeline>>
    /\ UNCHANGED generator_vars
    /\ UNCHANGED <<engine, calls, cancel>>

\* Step 3.  fastmcp.json and .github/workflows/deploy.yml are written below
\* builds/<user_uuid>/<repo_name.split('-')[0]>/1 beside the package of the
\* deployer; open() raises when that directory is not there.
_link_to_fastmcp ==
    /\ deployment.pc = "link_to_fastmcp"
    /\ TaskRuns
    /\ LET repo_name    == deployment.repo_info.repo_name
           build_path   == link_build_path(repo_name, deployment.user_uuid)
           config_file  == div(build_path, "fastmcp.json")
           workflow_dir == div(div(build_path, ".github"), "workflows")
           fastmcp_config == [name        |-> concat(repo_name),
                              description |-> "Generated MCP server for "
                                              \o split_0(repo_name) \o " platform",
                              version     |-> "1.0.0",
                              main        |-> "server.py",
                              runtime     |-> "python3.9",
                              dependencies |-> [python |-> "requirements.txt"]]
       IN  IF ~can_open_w(fs, config_file)
           THEN /\ deployment' = deployment_failed(deployment,
                       "FastMCP linking failed: [Errno 2] No such file or directory: '"
                       \o posix(config_file) \o "'")
                /\ UNCHANGED fs
           ELSE /\ fs' = write(mkdir(write(fs, config_file, [json |-> fastmcp_config]),
                                     workflow_dir),
                               div(workflow_dir, "deploy.yml"),
                               [text |-> << "name: Deploy to FastMCP Cloud" >>])
                /\ deployment' =
                      [deployment EXCEPT
                          !.pc = "verify_health",
                          !.deployment_result.fastmcp_url =
                              "https://fastmcp.cloud/" \o github_org \o "/"
                              \o concat(repo_name),
                          !.deployment_result.deployment_url =
                              "https://" \o concat(repo_name) \o ".fastmcp.cloud"]
    /\ UNCHANGED <<server, loop, pipeline>>
    /\ UNCHANGED generator_vars
    /\ UNCHANGED <<engine, calls, cancel>>

\* Steps 4 and 5.  After the health check deployment.json is written to the
\* build directory and success is set.
_verify_deployment_health ==
    /\ deployment.pc = "verify_health"
    /\ TaskRuns
    /\ \E healthy \in BOOLEAN :
          IF ~healthy
          THEN /\ deployment' = deployment_failed(deployment,
                      "Deployment failed health check: Health check failed with status 503")
               /\ UNCHANGED fs
          ELSE IF ~can_open_w(fs, div(deployment.build_path, "deployment.json"))
          THEN /\ deployment' = deployment_failed(deployment,
                      "[Errno 2] No such file or directory: '"
                      \o posix(div(deployment.build_path, "deployment.json")) \o "'")
               /\ UNCHANGED fs
          ELSE /\ fs' = write(fs, div(deployment.build_path, "deployment.json"),
                              [json |-> [deployed_at    |-> isoformat_now,
                                         github_repo    |-> deployment.deployment_result.github_repo,
                                         fastmcp_url    |-> deployment.deployment_result.fastmcp_url,
                                         deployment_url |-> deployment.deployment_result.deployment_url,
                                         deployment_method |-> "fastmcp_cloud",
                                         terraform_managed |-> TRUE]])
               /\ deployment' = [deployment EXCEPT !.deployment_result.success = TRUE,
                                                   !.pc = "returned"]
    /\ UNCHANGED <<server, loop, pipeline>>
    /\ UNCHANGED generator_vars
    /\ UNCHANGED <<engine, calls, cancel>>

-----------------------------------------------------------------------------
(* The stages of the pipeline that use the deployer, and the loop.         *)

\* Stage 4, the call of deploy_mcp_server.
_deploy_stage ==
    /\ pipeline.pc = "deployment"
    /\ TaskRuns
    /\ deployment' = deploy_mcp_server(pipeline.user_uuid, pipeline.platform,
                                       pipeline.version, pipeline.build_path)
    /\ pipeline' = [pipeline EXCEPT !.pc = "deploying"]
    /\ UNCHANGED <<server, loop, fs>>
    /\ UNCHANGED generator_vars
    /\ UNCHANGED <<engine, calls, cancel>>

\* Stage 4, after the call: metadata.json takes the outcome, and
\* execute_build_pipeline keeps deployment_info and returns on a failure.
_deploy_stage_return ==
    /\ pipeline.pc = "deploying"
    /\ deployment.pc = "returned"
    /\ TaskRuns
    /\ LET deployment_result == deployment.deployment_result
           stage_result ==
               IF deployment_result.success
               THEN [success         |-> TRUE,
                     error           |-> deployment_result.error,
                     deployment_info |-> deployment_result]
               ELSE [success         |-> FALSE,
                     error           |-> deployment_result.error,
                     deployment_info |-> None]
           updates ==
               IF deployment_result.success
               THEN [deployment |-> [completed_at   |-> isoformat_now,
                                     github_repo    |-> deployment_result.github_repo,
                                     fastmcp_url    |-> deployment_result.fastmcp_url,
                                     deployment_url |-> deployment_result.deployment_url],
                     status     |-> "deployed"]
               ELSE [status           |-> "deployment_failed",
                     deployment_error |-> deployment_result.error]
       IN  /\ fs' = _update_build_metadata(fs, pipeline.build_path, updates)
           /\ pipeline' = [stage_done(pipeline, "deployment", stage_result,
                                      "notification")
                              EXCEPT !.pipeline_result.deployment_info =
                                         stage_result.deployment_info]
    /\ deployment' = [pc |-> "none"]
    /\ UNCHANGED <<server, loop>>
    /\ UNCHANGED generator_vars
    /\ UNCHANGED <<engine, calls, cancel>>

\* A pipeline whose success asks for the notification too.
_notification_stage_strict ==
    /\ pipeline.pc = "notification"
    /\ TaskRuns
    /\ \E raised \in BOOLEAN :
          LET notification_result ==
                  IF raised
                  THEN [success |-> FALSE,
                        error   |-> "Notification failed: 'ascii' codec can't encode character"]
                  ELSE [success |-> TRUE]
          IN  pipeline' =
                 [pipeline EXCEPT
                     !.pipeline_result.stages =
                          [n \in DOMAIN @ \cup {"notification"} |->
                              IF n = "notification" THEN notification_result ELSE @[n]],
                     !.pipeline_result.success = notification_result.success,
                     !.pc = "returned"]
    /\ UNCHANGED <<server, loop, fs, deployment>>
    /\ UNCHANGED generator_vars
    /\ UNCHANGED <<engine, calls, cancel>>

\* Stage 5.  send_deployment_notification prints the message; an exception of
\* it gives a failed stage result, and success is set all the same.
_notification_stage ==
    /\ pipeline.pc = "notification"
    /\ TaskRuns
    /\ \E raised \in BOOLEAN :
          LET notification_result ==
                  IF raised
                  THEN [success |-> FALSE,
                        error   |-> "Notification failed: 'ascii' codec can't encode character"]
                  ELSE [success |-> TRUE]
          IN  pipeline' =
                 [pipeline EXCEPT
                     !.pipeline_result.stages =
                          [n \in DOMAIN @ \cup {"notification"} |->
                              IF n = "notification" THEN notification_result ELSE @[n]],
                     !.pipeline_result.success = TRUE,
                     !.pc = "returned"]
    /\ UNCHANGED <<server, loop, fs, deployment>>
    /\ UNCHANGED generator_vars
    /\ UNCHANGED <<engine, calls, cancel>>

\* loop.run_until_complete(server.handle_request(method, params)) returns: the
\* loop of the request stops after the turn in which the task it was given
\* ran up to its first suspension (a backend call may be one), and do_POST
\* never runs that loop again.
run_until_complete ==
    /\ loop = "last_turn"
    /\ \/ Suspended
       \/ pipeline.pc = "returned"
       \/ pipeline.pc = "code_generation" /\ pc \in {"call_llm", "hung"}
    /\ loop' = "stopped"
    /\ UNCHANGED <<server, fs, pipeline, deployment>>
    /\ UNCHANGED generator_vars
    /\ UNCHANGED <<engine, calls, cancel>>

\* The directory _link_to_fastmcp writes to for the user of the request, made
\* by somebody outside the program.
LinkDirectoryMade(f, user_uuid) ==
    mkdir(f, link_build_path(repo_name_of(Request.platform, user_uuid), user_uuid))

BuildInit ==
    \E f \in { RepositoryTree, LinkDirectoryMade(RepositoryTree, uuid4) } : InitOn(f)

BuildNext ==
    \/ call_tool
    \/ _setup_build_directory
    \/ generate_mcp_server
    \/ _generate_code_stage
    \/ _save_generated_code
    \/ _deploy_stage
    \/ _create_github_repo
    \/ _push_code_to_repo
    \/ _link_to_fastmcp
    \/ _verify_deployment_health
    \/ _deploy_stage_return
    \/ _notification_stage
    \/ run_until_complete

BuildSpec == BuildInit /\ [][BuildNext]_vars

\* The loop gives every task that can take a step its step, and
\* run_until_complete returns when its coroutine is done.
BuildLiveSpec == BuildSpec /\ WF_vars(BuildNext)

-----------------------------------------------------------------------------
(* A call of generate_mcp_server whose task is cancelled.  The code has no   *)
(* cancellation of its own: the request is cancelled by Task.cancel() of the *)
(* task that runs it, and asyncio raises CancelledError in the task at the   *)
(* await at which it is suspended, or at the next one it reaches.            *)

\* Task.cancel() while the backend call or the validation of an attempt is
\* under way; the loop index and the calls made so far are kept for reference.
task_cancel ==
    /\ ~cancel.requested
    /\ pc \in {"call_llm", "validate"}
    /\ cancel' = [requested |-> TRUE, at |-> pc, attempt |-> attempt,
                  llm_calls |-> llm_calls]
    /\ UNCHANGED generator_vars
    /\ UNCHANGED <<engine, calls>>
    /\ UNCHANGED build_vars

\* CancelledError is raised at `await self._call_llm(prompt)` or at the await
\* of a subprocess of the runtime tests, and nothing in generate_mcp_server
\* catches it.  The code that runs between two awaits (the policy check, the
\* stages on the text, the in-process functionality test) is not interrupted.
raise_CancelledError ==
    /\ cancel.requested
    /\ \/ pc = "call_llm"
       \/ pc = "validate" /\ runs_runtime_tests_on[validated_code]
    /\ pc' = "cancelled"
    /\ result' = [kind |-> "raised",
                  exception |-> [type |-> "CancelledError", message |-> ""]]
    /\ UNCHANGED <<attempt, prompt, generated_code, validated_code, test_results,
                   llm_calls, history>>
    /\ UNCHANGED <<engine, calls, cancel>>
    /\ UNCHANGED build_vars

CancelNext ==
    \/ Next
    \/ task_cancel
    \/ raise_CancelledError

CancelSpec == Init /\ [][CancelNext]_vars

-----------------------------------------------------------------------------
(* The deployments of the successive builds of one user and platform.      *)

\* The tree after the builds of the versions 1..n of the user and platform
\* have saved their code: builds/<user_uuid>/<platform>/<v>/mcp/server.py.
saved_builds(f, user_uuid, platform, n) ==
    LET mcp_dir(v) == div(get_builds_path(user_uuid, platform, v), "mcp")
        servers    == { div(mcp_dir(v), "server.py") : v \in 1..n }
    IN  [dirs  |-> f.dirs \cup UNION { parents(mcp_dir(v)) : v \in 1..n },
         files |-> [q \in DOMAIN f.files \cup servers |->
                       IF q \in servers THEN [text |-> CompliantCode]
                       ELSE f.files[q]]]

\* The pipeline calls the one Deployer for the build of the next version when
\* the deployment before it has returned.
deploy_next_version ==
    /\ deployment.pc \in {"none", "returned"}
    /\ LET version == IF deployment.pc = "none" THEN 1 ELSE deployment.version + 1
       IN  /\ version <= MaxVersion
           /\ deployment' = deploy_mcp_server(Request.user_uuid, Request.platform,
                                 version,
                                 get_builds_path(Request.user_uuid,
                                                 Request.platform, version))
    /\ UNCHANGED <<server, loop, fs, pipeline>>
    /\ UNCHANGED generator_vars
    /\ UNCHANGED <<engine, calls, cancel>>

DeployInit ==
    \E f \in { RepositoryTree, LinkDirectoryMade(RepositoryTree, Request.user_uuid) } :
       InitOn(saved_builds(f, Request.user_uuid, Request.platform, MaxVersion))

DeployNext ==
    \/ deploy_next_version
    \/ _create_github_repo
    \/ _push_code_to_repo
    \/ _link_to_fastmcp
    \/ _verify_deployment_health

DeploySpec == DeployInit /\ [][DeployNext]_vars

-----------------------------------------------------------------------------
(* Properties.                                                             *)

\* The call has ended: it returned a dict or raised.
Ended == pc \in {"returned", "raised"}

\* A backend call failed: it was made and produced no candidate.
BackendFailed == llm_calls > Len(history)

\* The backend's k-th reply does not parse.
UnparseableReply(k) == ~ast_parse(history[k].generated_code).ok

\* The backend's k-th reply is an artifact that meets every stage of the
\* validator, and its run, where it was run, passed.
FullyCompliantReply(k) ==
    /\ validate_code(history[k].generated_code, Request.oauth_creds, "passed").passed
    /\ history[k].outcome \in {"none", "passed"}

\* C1: with max_attempts = 3 and a backend whose every reply is unparseable, the
\* call ends with a returned result that has success = false, after exactly 3
\* backend calls and with one record for each of the 3 attempts.
C1_UnparseableBackendUsesWholeBudget ==
    (/\ Ended
     /\ ~BackendFailed
     /\ \A k \in DOMAIN history : UnparseableReply(k))
    => /\ pc = "returned"
       /\ result.value.success = FALSE
       /\ llm_calls = 3
       /\ Len(history) = 3

\* C2: when the backend's first reply is a fully compliant artifact, the call
\* ends after that one backend call with success = true, attempt = 1 and
\* test_results.passed = true.
C2_CompliantFirstReplyIsAccepted ==
    (/\ Ended
     /\ ~BackendFailed
     /\ FullyCompliantReply(1))
    => /\ pc = "returned"
       /\ result.value.success = TRUE
       /\ result.value.attempt = 1
       /\ llm_calls = 1
       /\ result.value.test_results.passed = TRUE

\* C3: when the backend's first reply is syntactically invalid and its second
\* reply is a fully compliant artifact, the call returns success = true with
\* attempt = 2: the failed first attempt is followed by a second one.
C3_InvalidThenCompliantSucceedsOnSecond ==
    (/\ Ended
     /\ ~BackendFailed
     /\ UnparseableReply(1)
     /\ Len(history) >= 2 => FullyCompliantReply(2))
    => /\ pc = "returned"
       /\ result.value.success = TRUE
       /\ result.value.attempt = 2

\* C4: a rejection by validate_and_sanitize never escapes to the caller of
\* generate_mcp_server: the call never ends by raising GuardrailException (the
\* attempt is a failed one and, below max_attempts, another backend call follows).
C4_PolicyRejectionDoesNotEscape ==
    ~(pc = "raised" /\ result.exception.type = "GuardrailException")

\* C5: once a backend call has failed the request is over: the call has raised,
\* no step (backend call, policy check, validation) follows, exactly the one
\* call failed, and the loop index still counts only the candidates produced.
C5_BackendFailureAbortsWithoutUsingAnAttempt ==
    BackendFailed
    => /\ pc = "raised"
       /\ result.kind = "raised"
       /\ result.exception.type = "Exception"
       /\ ~ENABLED Next
       /\ llm_calls = Len(history) + 1
       /\ attempt = Len(history)
       /\ \A k \in DOMAIN history : history[k].outcome # "none"

\* A backend call failed after an earlier attempt had failed validation.
C5_Witness == BackendFailed /\ pc = "raised" /\ Len(history) >= 1

\* C6: when a backend call fails, generate_mcp_server returns a result (it does
\* not raise) that has success = false and an error field.
C6_BackendFailureIsReturnedAsResult ==
    BackendFailed
    => /\ pc = "returned"
       /\ result.value.success = FALSE
       /\ "error" \in DOMAIN result.value

\* C7: validate_code is only ever invoked on a text for which check_violations
\* reports no error-severity violation.
C7_ValidatorOnlySeesPolicyCleanText ==
    pc = "validate" => critical_violations(check_violations(validated_code)) = <<>>

\* The five mandatory stage flags of a report.
MandatoryStagesPass(report) ==
    /\ report.syntax_valid
    /\ report.imports_valid
    /\ report.mcp_compliance
    /\ report.oauth_implementation
    /\ report.test_execution

\* C8: in every report, passed is exactly the conjunction of syntax_valid,
\* imports_valid, mcp_compliance, oauth_implementation and test_execution;
\* imports_valid is decided by the required imports alone; and whenever the
\* error-handling stage finds an issue its warnings are in the report, whatever
\* passed is.
C8_PassedIsConjunctionOfMandatoryStages ==
    pc = "decide"
    => /\ test_results.passed = MandatoryStagesPass(test_results)
       /\ test_results.syntax_valid
          => /\ test_results.imports_valid
                = (\A k \in DOMAIN required_imports :
                       Contains(validated_code, required_imports[k]))
             /\ test_results.warnings = _validate_error_handling(validated_code).warnings
             /\ test_results.error_handling = (test_results.warnings = <<>>)

\* A report that passed although the error-handling stage found issues and a
\* discouraged import is present.
C8_Witness ==
    /\ pc = "decide"
    /\ test_results.passed
    /\ ~test_results.error_handling
    /\ test_results.warnings # <<>>
    /\ Contains(validated_code, "import os")

\* C9: whenever the call has ended, at least one and at most max_attempts
\* backend calls have been made; an accepting result reports an attempt index
\* in 1..max_attempts, and a result of exhaustion comes after exactly
\* max_attempts calls.
C9_AttemptsUsedWithinBudget ==
    /\ llm_calls <= max_attempts
    /\ Ended
       => /\ 0 < llm_calls
          /\ (pc = "returned" /\ result.value.success)
             => /\ result.value.attempt \in 1..max_attempts
                /\ result.value.attempt = llm_calls
          /\ (pc = "returned" /\ ~result.value.success)
             => llm_calls = max_attempts

\* The budget was used up and the call returned the failure result.
C9_Witness == pc = "returned" /\ ~result.value.success /\ llm_calls = max_attempts

PromptWithFeedbackOf(k) ==
    _build_generation_prompt(Request.platform, Request.description, Request.oauth_creds)
    \o [j \in 1..(k - 1) |->
           [piece |-> "feedback", text |-> feedback(history[j].test_results)]]

\* C11: the prompt passed to the backend on attempt k is the request prompt
\* followed by the feedback of every failed attempt 1..k-1 in attempt order:
\* no earlier feedback is dropped or overwritten, and the request prompt is
\* always its first piece.
C11_PromptAccumulatesFeedbackInOrder ==
    /\ \A k \in DOMAIN history : history[k].prompt = PromptWithFeedbackOf(k)
    /\ pc = "call_llm" => prompt = PromptWithFeedbackOf(Len(history) + 1)

\* A third attempt whose prompt carries the different feedbacks of two failed
\* attempts.
C11_Witness ==
    /\ Len(history) = 3
    /\ Len(history[3].prompt) = 3
    /\ history[3].prompt[2] # history[3].prompt[3]

\* The text t stands verbatim in the prompt p.
InPrompt(t, p) ==
    \E i \in DOMAIN p :
        /\ p[i].piece = "feedback"
        /\ \E l \in DOMAIN p[i].text : \E c \in DOMAIN p[i].text[l] : p[i].text[l][c] = t

\* The components of Stage C that make the capability-listing entrypoint.
ListToolsComponents == {2, 3}

\* The Stage C failure entry of the k-th component.
MissingComponentEntry(k) ==
    "Missing " \o required_components[k][2] \o ": " \o required_components[k][1]

\* Attempt k validated an artifact that lacks the m-th component.
ValidatedWithout(k, m) ==
    /\ history[k].test_results # Unbound
    /\ history[k].test_results.syntax_valid
    /\ ~Contains(history[k].validated_code, required_components[m][1])

C13_SyntaxFailureSkipsLaterStages ==
    \A k \in DOMAIN history :
        (history[k].test_results # Unbound /\ ~ast_parse(history[k].validated_code).ok)
        => LET report == history[k].test_results
               e      == ast_parse(history[k].validated_code)
           IN  /\ ~report.syntax_valid
               /\ ~report.passed
               /\ report.failures =
                      << "Syntax error: Line " \o ToString(e.lineno) \o ": " \o e.msg >>
               /\ report.error_details = "Line " \o ToString(e.lineno) \o ": " \o e.msg
               /\ ~report.imports_valid
               /\ ~report.mcp_compliance
               /\ ~report.oauth_implementation
               /\ ~report.error_handling
               /\ ~report.test_execution
               /\ report.warnings = <<>>

\* An unparseable text was validated, and the import stage, had it run, would
\* have passed it and recorded a discouraged import.
C13_Witness ==
    /\ pc = "decide"
    /\ ~ast_parse(validated_code).ok
    /\ ~test_results.syntax_valid
    /\ _validate_imports(validated_code).valid
    /\ _validate_imports(validated_code).errors # <<>>

\* The failure entries Stage F can add to a report.
StageFFailures ==
    UNION { { _execute_runtime_tests(<<>>, o).failures[i] :
                i \in DOMAIN _execute_runtime_tests(<<>>, o).failures }
            : o \in ExecutionOutcomes \ {"hang"} }

\* Stage F has contributed to the report: its flag is set or one of its
\* failure entries is there.
StageFContributed(report) ==
    \/ report.test_execution
    \/ \E i \in DOMAIN report.failures : report.failures[i] \in StageFFailures

\* Attempt k ended validation with a report on a text that parses.
ReportOnParsedText(k) ==
    /\ history[k].test_results # Unbound
    /\ history[k].test_results.syntax_valid

\* The entries of the list `errors` are all in the list `failures`.
AllIn(errors, failures) ==
    \A i \in DOMAIN errors : \E j \in DOMAIN failures : failures[j] = errors[i]

\* C14 as claimed: for every candidate that parses, Stage F runs and
\* contributes to the report whether or not an earlier stage failed.
C14_StageFRunsForEveryParsedCandidate ==
    \A k \in DOMAIN history :
        ReportOnParsedText(k) => StageFContributed(history[k].test_results)

\* What each of the stages B to E computes on the texts the validator is given.
StagesOn ==
    [code \in SanitizedCandidates |->
        [imports        |-> _validate_imports(code),
         mcp            |-> _validate_mcp_compliance(code),
         oauth          |-> _validate_oauth_implementation(code, Request.oauth_creds),
         error_handling |-> _validate_error_handling(code)]]

\* C14 as amended: for every candidate that parses, stages B, C, D and E are all
\* run and contribute their results whatever the earlier stages found, and
\* Stage F is run exactly when Stage C passed: a failure of Stage B or D does
\* not prevent it, a failure of Stage C does.
C14_StageFRunsExactlyWhenStageCPassed ==
    \A k \in DOMAIN history :
        ReportOnParsedText(k)
        => LET report == history[k].test_results
               stage  == StagesOn[history[k].validated_code]
           IN  /\ report.imports_valid = stage.imports.valid
               /\ report.mcp_compliance = stage.mcp.valid
               /\ report.oauth_implementation = stage.oauth.valid
               /\ report.error_handling = stage.error_handling.valid
               /\ ~report.imports_valid => AllIn(stage.imports.errors, report.failures)
               /\ AllIn(stage.mcp.errors, report.failures)
               /\ AllIn(stage.oauth.errors, report.failures)
               /\ report.warnings = stage.error_handling.warnings
               /\ StageFContributed(report) = report.mcp_compliance

\* Stage F ran and failed on a candidate that had failed Stage B, and an
\* earlier candidate that had failed Stage C was not run.
C14_Witness ==
    /\ Len(history) >= 2
    /\ ReportOnParsedText(1)
    /\ ~history[1].test_results.mcp_compliance
    /\ ~StageFContributed(history[1].test_results)
    /\ ReportOnParsedText(2)
    /\ ~history[2].test_results.imports_valid
    /\ history[2].test_results.mcp_compliance
    /\ ~history[2].test_results.test_execution
    /\ StageFContributed(history[2].test_results)

\* The entry _validate_imports builds for the k-th discouraged import.
DiscouragedImportEntry(k) == "Warning: " \o problematic_patterns[k][2]

\* C15: when a candidate that parses holds a discouraged import, the report has
\* its entry among the warnings and not among the failures, whether or not a
\* required import is missing, and imports_valid does not depend on it.
C15_DiscouragedImportIsRecordedAsWarning ==
    \A n \in DOMAIN history : \A k \in DOMAIN problematic_patterns :
        (/\ ReportOnParsedText(n)
         /\ Contains(history[n].validated_code, problematic_patterns[k][1]))
        => LET report == history[n].test_results
           IN  /\ \E i \in DOMAIN report.warnings :
                      report.warnings[i] = DiscouragedImportEntry(k)
               /\ \A i \in DOMAIN report.failures :
                      report.failures[i] # DiscouragedImportEntry(k)
               /\ report.imports_valid
                     = (\A j \in DOMAIN required_imports :
                            Contains(history[n].validated_code, required_imports[j]))

\* The names the import statement of a line imports, modules and the names taken
\* from them.
ImportedNames(line) ==
    CASE line = "import os" -> {"os"}
      [] line = "import subprocess" -> {"subprocess"}
      [] line = "from subprocess import Popen" -> {"subprocess", "subprocess.Popen"}
      [] line = "from os import system" -> {"os", "os.system"}
      [] line = "from mcp import types" -> {"mcp", "mcp.types"}
      [] line = "from mcp.server import Server" -> {"mcp.server", "mcp.server.Server"}
      [] line = "from mcp.server.stdio import stdio_server" ->
           {"mcp.server.stdio", "mcp.server.stdio.stdio_server"}
      [] OTHER -> {}

\* The text holds an import of a name of forbidden_imports.
ImportsForbiddenName(code) ==
    \E i \in DOMAIN code : ImportedNames(code[i]) \cap forbidden_imports # {}

\* C16: for every text that holds an import of a denylisted name,
\* check_violations returns at least one violation of severity error and
\* validate_and_sanitize raises GuardrailException instead of returning a text.
C16_DenylistedImportIsRejected ==
    \A i \in DOMAIN calls :
        ImportsForbiddenName(calls[i].code)
        => /\ calls[i].method = "check_violations"
              => critical_violations(calls[i].result) # <<>>
           /\ calls[i].method = "validate_and_sanitize"
              => /\ calls[i].result.raised
                 /\ calls[i].result.exception.type = "GuardrailException"

\* The line of the hardcoded secret and the line the sanitizer makes of it.
HardcodedSecretLine == "CLIENT_SECRET = \"sk_abcdef0123456789abcdef\""

EnvironmentSecretLine == "CLIENT_SECRET = os.getenv(\"OAUTH_CLIENT_SECRET\")"

\* The line `l` stands in the text.
HasLine(code, l) == \E i \in DOMAIN code : code[i] = l

\* C17: validate_and_sanitize of a text with the line
\* CLIENT_SECRET = "sk_abcdef0123456789abcdef" returns a text in which that line
\* is rewritten to the environment lookup, and check_violations on the returned
\* text flags no hardcoded secret on that line.
C17_HardcodedSecretIsRewritten ==
    \A i \in DOMAIN calls :
        (calls[i].method = "validate_and_sanitize" /\ HasLine(calls[i].code, HardcodedSecretLine))
        => /\ ~calls[i].result.raised
           /\ ~HasLine(calls[i].result.value, HardcodedSecretLine)
           /\ HasLine(calls[i].result.value, EnvironmentSecretLine)
           /\ LET violations == check_violations(calls[i].result.value)
              IN  \A k \in DOMAIN violations :
                      (violations[k].rule \in {"hardcoded_secret", "security_pattern"})
                      => calls[i].result.value[violations[k].line_number]
                             # EnvironmentSecretLine

\* The rules whose warnings have an automatic fix.
FixedRules == {"hardcoded_secret", "credential_handling"}

\* C18: validate_and_sanitize returns no text for an input that has a violation
\* of severity error, and a text it returns differs from its input only when
\* the input has a warning of a rule with an automatic fix: an error is never
\* fixed away.
C18_ErrorsAlwaysRejectFixesOnlyForWarnings ==
    \A i \in DOMAIN calls :
        calls[i].method = "validate_and_sanitize"
        => LET violations == check_violations_on[calls[i].code]
           IN  /\ calls[i].result.raised = (critical_violations(violations) # <<>>)
               /\ (~calls[i].result.raised /\ calls[i].result.value # calls[i].code)
                  => \E k \in DOMAIN violations :
                         /\ violations[k].severity = "warning"
                         /\ violations[k].rule \in FixedRules

\* One text was rejected for an error next to a warning that has a fix, and
\* another, with that warning alone, was returned rewritten.
C18_Witness ==
    /\ Len(calls) = 2
    /\ calls[1].method = "validate_and_sanitize"
    /\ calls[1].result.raised
    /\ \E k \in DOMAIN check_violations_on[calls[1].code] :
          /\ check_violations_on[calls[1].code][k].severity = "warning"
          /\ check_violations_on[calls[1].code][k].rule \in FixedRules
    /\ calls[2].method = "validate_and_sanitize"
    /\ ~calls[2].result.raised
    /\ calls[2].result.value # calls[2].code

C20_BlockedExecutionIsTerminated ==
    /\ pc # "hung"
    /\ \A k \in DOMAIN history :
          history[k].outcome = "hang"
          => /\ history[k].test_results # Unbound
             /\ ~history[k].test_results.passed

\* C26: generate_mcp_server returns success = true only with a report that has
\* passed = true and is the report of the returned code; the returned code is
\* the sanitized text that was validated in that same, last attempt; and
\* nothing follows the accepting attempt: no backend call, policy check or
\* validation is enabled, and the calls made are those of the attempts.
C26_AcceptedIsValidatedAndTerminal ==
    (pc = "returned" /\ result.value.success)
    => LET n == Len(history)
       IN  /\ result.value.test_results.passed
           /\ result.value.test_results = history[n].test_results
           /\ result.value.test_results
                 = validate_code_on[result.value.code, history[n].outcome]
           /\ result.value.code = history[n].validated_code
           /\ result.value.code
                 = validate_and_sanitize_on[history[n].generated_code].value
           /\ result.value.attempt = n
           /\ llm_calls = n
           /\ ~ENABLED Next

\* The call accepted the candidate of its second attempt.
C26_Witness ==
    /\ pc = "returned"
    /\ result.value.success
    /\ result.value.attempt = 2
    /\ ~history[1].test_results.passed

\* The text meets the validator's structural and domain contract: it parses,
\* has the required imports, the list_tools and call_tool entrypoints and the
\* environment-read credentials, and holds no forbidden import or call.
SatisfiesValidatorContract(code) ==
    LET report == validate_code(code, Request.oauth_creds, "passed")
    IN  /\ MandatoryStagesPass(report)
        /\ _check_ast_violations(code) = <<>>
        /\ ~ImportsForbiddenName(code)

\* C24: for a backend reply that satisfies the validator's contract,
\* check_violations returns no error-severity violation, so that the policy
\* engine does not reject what the validator accepts.
C24_ValidatorContractImpliesPolicyClean ==
    \A k \in DOMAIN history :
        SatisfiesValidatorContract(history[k].generated_code)
        => /\ critical_violations(check_violations_on[history[k].generated_code]) = <<>>
           /\ history[k].guardrails # "rejected"

\* The text, a list of lines of pieces, holds the string s as it is.
TextHolds(text, s) ==
    \E i \in DOMAIN text : \E j \in DOMAIN text[i] : text[i][j] = s

\* The prompt was built with the string s for its OAuth secret.
PromptHolds(p, s) ==
    \E i \in DOMAIN p :
        p[i].piece = "generation_prompt" /\ p[i].oauth_secret = s

\* The file has the name `name`.
Named(path, name) == path[Len(path)] = name

\* C21: throughout a build request no persisted prompt.txt or metadata.json
\* and no prompt sent to the generative backend holds the OAuth client secret
\* of the request in cleartext.
C21_ClientSecretIsNeverPersistedOrSent ==
    (server.pc = "responded" /\ truthy(get(server.arguments, "client_secret")))
    => LET secret == server.arguments.client_secret
       IN  /\ \A path \in DOMAIN fs.files :
                  Named(path, "prompt.txt") => ~TextHolds(fs.files[path].text, secret)
           /\ \A path \in DOMAIN fs.files :
                  Named(path, "metadata.json")
                  => \A k \in {"build_id", "platform", "user_uuid", "status"} :
                         fs.files[path].json[k] # secret
           /\ \A k \in DOMAIN history : ~PromptHolds(history[k].prompt, secret)

\* The results of the stages that have run.
stages == pipeline.pipeline_result.stages

\* The save-code or the deployment stage has begun.
SaveOrDeployBegun ==
    /\ pipeline.pc # "none"
    /\ \/ pipeline.pc \in {"save_code", "deployment", "deploying", "notification"}
       \/ "save_code" \in DOMAIN stages
       \/ "deployment" \in DOMAIN stages

\* The files called server.py that stand in the file system or were pushed.
SavedServerTexts ==
    { fs.files[q].text : q \in { q \in DOMAIN fs.files : Named(q, "server.py") } }
    \cup (IF deployment.pc # "none" /\ deployment.pushed # Unbound
          THEN { deployment.pushed[q].text :
                    q \in { q \in DOMAIN deployment.pushed : Named(q, "server.py") } }
          ELSE {})

\* C22: the save-code and deployment stages run only after code generation
\* returned success = true, and the only generated text that is saved or
\* pushed is the accepted artifact: the sanitized text of the last attempt,
\* whose report passed.
C22_OnlyTheAcceptedArtifactIsSavedAndDeployed ==
    /\ SaveOrDeployBegun
       => /\ pc = "returned"
          /\ result.value.success
          /\ stages["code_generation"].success
          /\ stages["code_generation"].code = result.value.code
    /\ \A text \in SavedServerTexts :
          /\ pc = "returned"
          /\ result.value.success
          /\ text = result.value.code
          /\ text = history[Len(history)].validated_code
          /\ history[Len(history)].test_results.passed

\* The accepted artifact of a second attempt was saved and pushed, and the
\* candidate of the failed first attempt was another text.
C22_Witness ==
    /\ pipeline.pc = "returned"
    /\ Len(history) = 2
    /\ history[1].generated_code # history[2].generated_code
    /\ \E q \in DOMAIN fs.files : Named(q, "server.py")
    /\ \E q \in DOMAIN fs.files :
          Named(q, "deployment.json")

\* C23: once the request is cancelled while a backend call or a sandbox
\* execution is in flight, no further attempt is consumed and no backend call
\* is made other than the one that was in flight, and the call does not go on
\* to return a result.
C23_CancellationStopsTheLoop ==
    cancel.requested
    => /\ attempt = cancel.attempt
       /\ llm_calls <= cancel.llm_calls + (IF cancel.at = "call_llm" THEN 1 ELSE 0)
       /\ pc # "returned"

\* A required parameter of the request is missing or empty.
ParameterMissing ==
    \E i \in DOMAIN build_parameters :
        ~truthy(get(server.arguments, build_parameters[i]))

\* The request is the one whose platform is assessed as not viable.
NotViable ==
    /\ ~ParameterMissing
    /\ server.arguments.platform = unsupported_platform_arguments.platform

\* The texts of the two rejections.
RejectionTexts ==
    { "Error: All parameters are required (platform, user_email, client_id, client_secret, redirect_url, description)",
      "Platform unsupported_platform is not currently supported, but your request has been noted for future development." }

\* C25: a build_mcp_server request that is rejected, for a missing parameter
\* or for a platform assessed as not viable, is answered by a single text that
\* tells the rejection, and no build directory is made, no prompt.txt is
\* written and no pipeline is started.
C25_RejectedRequestLeavesNoTrace ==
    (server.pc = "responded" /\ (ParameterMissing \/ NotViable))
    => LET content == IF server.transport = "http"
                      THEN server.response.content ELSE server.response.returned
       IN  /\ server.transport = "http" => server.response.status = 200
           /\ Len(content) = 1
           /\ content[1].type = "text"
           /\ content[1].text \in RejectionTexts
           /\ ParameterMissing <=> content[1].text = build_mcp_server(
                                       << >>, RepositoryTree,
                                       missing_params_arguments, FALSE, TRUE).value[1].text
           /\ \A d \in fs.dirs :
                  is_relative_to(d, builds_base_path) => d = builds_base_path
           /\ \A q \in DOMAIN fs.files : ~Named(q, "prompt.txt")
           /\ fs.files = << >>
           /\ pipeline.pc = "none"
           /\ deployment.pc = "none"
           /\ pc = "idle"

\* The request for the platform assessed as not viable was answered over HTTP.
C25_Witness ==
    /\ server.pc = "responded"
    /\ NotViable
    /\ server.transport = "http"
    /\ loop = "stopped"

\* The stages in the order of the claim.
StageOrder ==
    << "setup", "code_generation", "save_code", "deployment", "notification" >>

\* The place in StageOrder of the stage the pipeline is at.
StageAt ==
    CASE pipeline.pc = "setup"           -> 1
      [] pipeline.pc = "code_generation" -> 2
      [] pipeline.pc = "save_code"       -> 3
      [] pipeline.pc \in {"deployment", "deploying"} -> 4
      [] pipeline.pc = "notification"    -> 5
      [] OTHER                           -> 0

\* The first n stages of the order.
FirstStages(n) == { StageOrder[i] : i \in 1..n }

\* C27: the stages of execute_build_pipeline run in the order setup,
\* code_generation, save_code, deployment, notification; a stage runs only
\* when every earlier stage reported success; and the returned result has
\* success = true exactly when setup, code_generation, save_code and
\* deployment all succeeded, whatever the notification reported.
C27_StagesRunInOrderAndDecideSuccess ==
    pipeline.pc # "none"
    => /\ \E n \in 0..5 : DOMAIN stages = FirstStages(n)
       /\ \A i \in 1..5 : \A j \in 1..(i - 1) :
              StageOrder[i] \in DOMAIN stages => stages[StageOrder[j]].success
       /\ StageAt # 0
          => /\ DOMAIN stages = FirstStages(StageAt - 1)
             /\ \A j \in 1..(StageAt - 1) : stages[StageOrder[j]].success
       /\ pipeline.pc # "returned" => ~pipeline.pipeline_result.success
       /\ pipeline.pc = "returned"
          => (pipeline.pipeline_result.success
              <=> \A i \in 1..4 : /\ StageOrder[i] \in DOMAIN stages
                                  /\ stages[StageOrder[i]].success)

\* The pipeline returned success = true although its notification failed.
C27_Witness ==
    /\ pipeline.pc = "returned"
    /\ pipeline.pipeline_result.success
    /\ ~stages["notification"].success

\* The request was answered with the text that tells the build was initiated.
BuildInitiated ==
    /\ server.pc = "responded"
    /\ \/ /\ server.transport = "http"
          /\ server.response.status = 200
          /\ server.response.content[1].text
               = "MCP server build initiated for github. Build ID: "
                 \o build_id(uuid4, "github", 1)
                 \o ". You will receive an email when deployment is complete."
       \/ /\ server.transport = "await"
          /\ "returned" \in DOMAIN server.response
          /\ server.response.returned[1].text
               = "MCP server build initiated for github. Build ID: "
                 \o build_id(uuid4, "github", 1)
                 \o ". You will receive an email when deployment is complete."

LinkingError ==
    "FastMCP linking failed: [Errno 2] No such file or directory: '"
    \o posix(div(link_build_path(deployment.repo_info.repo_name,
                                 deployment.user_uuid), "fastmcp.json"))
    \o "'"

\* The linking step of the deployment has run and failed, or has run and
\* succeeded.
LinkingFailed ==
    /\ deployment.pc = "returned"
    /\ deployment.repo_info # Unbound
    /\ deployment.deployment_result.error = LinkingError

LinkingSucceeded ==
    /\ deployment.pc \in {"verify_health", "returned"}
    /\ deployment.deployment_result.fastmcp_url # None

\* C29: for a build whose directory the pipeline has made, the linking step of
\* its deployment succeeds, and fastmcp.json and the deploy workflow stand in
\* the build directory of that build, builds/<user_uuid>/<platform>/<version>.
C29_LinkingWritesIntoTheBuildDirectory ==
    (deployment.pc # "none" /\ deployment.build_path \in fs.dirs)
    => /\ ~LinkingFailed
       /\ LinkingSucceeded
          => /\ div(deployment.build_path, "fastmcp.json") \in DOMAIN fs.files
             /\ div(div(div(deployment.build_path, ".github"), "workflows"),
                     "deploy.yml") \in DOMAIN fs.files

\* The clone directory of the deployment, and: _push_code_to_repo has returned.
TempRepo == div(parent(deployment.build_path), "temp_repo")

PushReturned ==
    /\ deployment.pc \in {"link_to_fastmcp", "verify_health", "returned"}
    /\ deployment.repo_info # Unbound

\* C30: after _push_code_to_repo has returned, on any path, temp_repo is not
\* there, and no deployment fails because git clone found the temp_repo of a
\* deployment before it.
C30_PushLeavesNoCloneDirectory ==
    /\ PushReturned => ~exists(fs, TempRepo)
    /\ deployment.pc = "returned"
       => deployment.deployment_result.error
             # "Git clone failed: fatal: destination path '" \o posix(TempRepo)
               \o "' already exists and is not an empty directory."
====
